---- MODULE Spec2Model ----
(***************************************************************************)
(* RD-PDF, src/components/ImageAnnotator.tsx: the image annotator.         *)
(*                                                                         *)
(* Units.  Screen (client) coordinates and the pan offset are whole        *)
(* pixels.  World coordinates and all annotation geometry are hundredths   *)
(* of a pixel, the zoom is in hundredths (zoom = 100 is 1x), so that the   *)
(* JavaScript floating-point arithmetic becomes fixed-point arithmetic     *)
(* rounded to the nearest unit.                                            *)
(*                                                                         *)
(* React.  The component's useState values are the variables the handlers  *)
(* of the last render closed over.  A setState call is an entry of         *)
(* `pending`; a render applies the pending entries in order.  Handlers of  *)
(* discrete events (pointerdown, pointerup, click, keydown, input) are     *)
(* followed by a synchronous render; handlers of continuous events         *)
(* (pointermove, pointerleave) and of plain callbacks (img.onload) leave   *)
(* their entries pending until React's scheduled render runs (Render).     *)
(* useRef values are written at once.                                      *)
(***************************************************************************)
EXTENDS Integers, Sequences, FiniteSets, TLC

\* ----------------------------------------------------------------- bounds
MaxAnnotations == 1
MaxNow == 1
MaxPath == 2
MaxPending == 1
MaxPan == 400
MaxStore == 3

\* ------------------------------------------------- constants of the source
MIN_ZOOM == 20
MAX_ZOOM == 500
MARKUP_COLORS == <<"#ef4444", "#f97316">>
eraserSize == 20
\* canvas.width / canvas.height, taken from the parent element at each draw
CanvasW == 800
CanvasH == 800

\* null (and, for its id, the undefined of hitAnnotation?.id)
NULL == [type |-> "null", id |-> <<"undefined">>]
NoId == <<>>
NoProbe == [space |-> "none"]
\* no File (null)
NoFile == [name |-> <<>>, isPdf |-> FALSE, valid |-> FALSE]
\* activePageIndex === null
NoIndex == -1
\* ImageToPdf as it is mounted: useState of pages, activePageIndex,
\* isAiLoading and error (null is ""), and the removeBackground calls that
\* have not answered, each with the pages and activePageIndex of the render
\* that made it
NoImagePdf ==
    [pages |-> <<>>, activePageIndex |-> NoIndex, isAiLoading |-> FALSE, error |-> "",
     calls |-> <<>>]
\* PdfSplitter as it is mounted, with the files renderPdfPages is reading
NoSplitter ==
    [pdfFile |-> NoFile, pageThumbnails |-> <<>>, totalPages |-> 0, isLoading |-> FALSE,
     error |-> "", reading |-> <<>>]
\* the PDF editor as it is mounted, with the files renderPdfPages is reading
NoPdfEditor ==
    [pdfFile |-> NoFile, pageThumbnails |-> <<>>, activePage |-> 0, isLoading |-> FALSE,
     error |-> "", reading |-> <<>>]
\* PdfMerger as it is mounted: useState of pdfFiles, isLoading and error (null
\* is ""), the previews being generated by processFiles, the position of the
\* running mergePdfs, and the saveAs calls of the component
NoMerger ==
    [pdfFiles |-> <<>>, isLoading |-> FALSE, error |-> "", previews |-> <<>>,
     merging |-> <<>>, saved |-> <<>>]
NoPos == [none |-> TRUE]
Pt(px, py) == [x |-> px, y |-> py]

\* The files offered to processFile: the 100 x 100 image of the spec's
\* scenarios, and a file that is no image.
\* A file name is the sequence of its dot-separated parts.
ImageFiles == {[name |-> <<"a", "png">>, isImage |-> TRUE, naturalWidth |-> 100, naturalHeight |-> 100]}
OtherFiles == {[name |-> <<"a", "txt">>, isImage |-> FALSE, naturalWidth |-> 0, naturalHeight |-> 0]}
\* A second image, and a file whose type is an image type and whose content
\* does not decode.
MoreImageFiles == {[name |-> <<"b", "png">>, isImage |-> TRUE, naturalWidth |-> 200, naturalHeight |-> 100]}
CorruptFiles == {[name |-> <<"c", "png">>, isImage |-> TRUE, naturalWidth |-> 0, naturalHeight |-> 0]}

\* Screen points of the drawing gestures: world (10,10) and (50,50) at zoom 1.
DrawPts == {Pt(360, 360), Pt(400, 400)}
\* Screen points of the view gestures: 400 px apart.
ViewPts == {Pt(360, 360), Pt(760, 760)}

Min(a, b) == IF a < b THEN a ELSE b
Max(a, b) == IF a > b THEN a ELSE b
\* a / b rounded to the nearest integer, b > 0
RoundDiv(a, b) == (2 * a + b) \div (2 * b)

\* Math.exp(deltaY * 0.005) in ten-thousandths, for deltaY a multiple of 100 px
ExpTable == <<183, 302, 498, 821, 1353, 2231, 3679, 6065, 10000, 16487, 27183, 44817, 73891, 121825, 200855, 331155, 545982>>
ExpScaled(deltaY) == ExpTable[(deltaY \div 100) + 9]

VARIABLES image, error, tool, color, annotations, drawingAnnotation,
          editingAnnotation, selectedAnnotationId, zoom, offset,
          imageRef, isPointerDown, startPan, startPoint,
          dragStartAnnotationPos, zoomStartPointY, startZoom,
          isResizing, resizeStart, listeners, timers,
          pending, now, decoding, exported, encodes, saved, probe, merger,
          imagePdf, splitter, pdfEditor

\* useState of ImageAnnotator, and isResizing of the mounted TextEditor
state == <<image, error, tool, color, annotations, drawingAnnotation,
           editingAnnotation, selectedAnnotationId, zoom, offset, isResizing>>
\* useRef of ImageAnnotator, and resizeStart of the mounted TextEditor
refs == <<imageRef, isPointerDown, startPan, startPoint,
          dragStartAnnotationPos, zoomStartPointY, startZoom, resizeStart>>
\* the mousedown listeners the mounted TextEditor has on the document, and the
\* setTimeout callbacks that will add one
editor == <<listeners, timers>>
\* the canvas of the last export, the toBlob calls made and the saveAs calls
export == <<exported, encodes, saved>>
\* the other tools of the application: ImageToPdf, PdfSplitter and the PDF
\* editor
otherTools == <<imagePdf, splitter, pdfEditor>>
vars == <<state, refs, editor, pending, now, decoding, export, probe, merger, otherTools>>

\* --------------------------------------------------------- state updates
Set(v, a) == [var |-> v, op |-> "set", arg |-> a]
Upd(v, o, a) == [var |-> v, op |-> o, arg |-> a]

\* One setState entry applied to the value it is queued on.
ApplyOne(val, u) ==
    CASE u.op = "set" -> u.arg
      [] u.op = "filter" -> SelectSeq(val, LAMBDA a : a.id # u.arg)
      [] u.op = "replace" ->
            [i \in DOMAIN val |-> IF val[i].id = u.arg.id THEN u.arg ELSE val[i]]
      [] u.op = "append" -> Append(val, u.arg)
      [] u.op = "move" ->
            [i \in DOMAIN val |->
                IF val[i].id = u.arg.id
                THEN [val[i] EXCEPT !.x = u.arg.x, !.y = u.arg.y]
                ELSE val[i]]
      [] u.op = "appendPoint" -> [val EXCEPT !.path = Append(@, u.arg)]

RECURSIVE Reduce(_, _, _)
Reduce(v, val, ups) ==
    IF ups = <<>> THEN val
    ELSE Reduce(v, IF Head(ups).var = v THEN ApplyOne(val, Head(ups)) ELSE val, Tail(ups))

\* The render: every pending entry, then `ups`, applied in order.
Flush(ups) ==
    LET all == pending \o ups
    IN  /\ image' = Reduce("image", image, all)
        /\ error' = Reduce("error", error, all)
        /\ tool' = Reduce("tool", tool, all)
        /\ color' = Reduce("color", color, all)
        /\ annotations' = Reduce("annotations", annotations, all)
        /\ drawingAnnotation' = Reduce("drawingAnnotation", drawingAnnotation, all)
        /\ editingAnnotation' = Reduce("editingAnnotation", editingAnnotation, all)
        /\ selectedAnnotationId' = Reduce("selectedAnnotationId", selectedAnnotationId, all)
        /\ zoom' = Reduce("zoom", zoom, all)
        /\ offset' = Reduce("offset", offset, all)
        \* the TextEditor's state lives as long as the editor is mounted
        /\ isResizing' = (editingAnnotation' # NULL /\ Reduce("isResizing", isResizing, all))
        /\ pending' = <<>>

\* A queue without the entries that a later plain setState(value) on the same
\* state variable overwrites: they cannot show in any render.
Effective(q) ==
    SelectSeq([i \in DOMAIN q |-> [u |-> q[i], i |-> i]],
              LAMBDA e : ~\E j \in DOMAIN q :
                            j > e.i /\ q[j].var = e.u.var /\ q[j].op = "set")

\* The entries wait for the scheduled render.
Enqueue(ups) ==
    /\ pending' = LET e == Effective(pending \o ups) IN [i \in DOMAIN e |-> e[i].u]
    /\ UNCHANGED state

\* The value a state variable will have once the pending entries are rendered.
Cur(v, val) == Reduce(v, val, pending)

\* ------------------------------------------------------------ annotations
Ann(i, t, c, px, py, w, h) ==
    [id |-> i, type |-> t, color |-> c, x |-> px, y |-> py, width |-> w,
     height |-> h, text |-> <<>>, fontSize |-> 0, path |-> <<>>, strokeWidth |-> 0]

AnnId(t) == <<"ann", t>>
TempId(t) == <<"temp", t>>
TempEraserId == <<"temp-eraser">>

\* A text is the sequence of the lengths of its words (text.split(' ')):
\* '' is <<0>>, 'Hello' is <<5>>, ' ' is <<0, 0>>.
EmptyText == <<0>>
Texts == {<<0>>, <<5>>}
\* text.trim() === ''
TrimIsEmpty(text) == \A i \in DOMAIN text : text[i] = 0

\* context.measureText(line).width for a line of `chars` characters, with
\* half an em for every character of the sans-serif font
MeasureText(chars, fontSize) == chars * fontSize * 50

RECURSIVE WrapLines(_, _, _, _, _, _)
WrapLines(words, n, line, lines, maxWidth, fontSize) ==
    IF n > Len(words) THEN lines
    ELSE LET testLine == line + words[n] + 1
             testWidth == MeasureText(testLine, fontSize)
         IN  IF testWidth > maxWidth /\ n > 1
             THEN WrapLines(words, n + 1, words[n] + 1, lines + 1, maxWidth, fontSize)
             ELSE WrapLines(words, n + 1, testLine, lines, maxWidth, fontSize)

getTextBlockHeight(text, maxWidth, fontSize, lineHeight) ==
    WrapLines(text, 1, 0, 1, maxWidth, fontSize) * lineHeight

\* ------------------------------------------------------------- transform
\* ctx.getTransform() as the last draw left it: translate to the surface
\* centre plus offset, scale by zoom, translate by the negative image centre.
Transform ==
    [a |-> zoom,
     e |-> (CanvasW \div 2 + offset.x) * 100 - (zoom * image.naturalWidth) \div 2,
     f |-> (CanvasH \div 2 + offset.y) * 100 - (zoom * image.naturalHeight) \div 2]

getTransformedPoint(sx, sy) ==
    Pt(RoundDiv((sx * 100 - Transform.e) * 100, Transform.a),
       RoundDiv((sy * 100 - Transform.f) * 100, Transform.a))

worldToScreen(wx, wy) ==
    Pt(RoundDiv(Transform.a * wx + 100 * Transform.e, 10000),
       RoundDiv(Transform.a * wy + 100 * Transform.f, 10000))

\* -------------------------------------------------------------- hit test
Contains(ann, point) ==
    LET x1 == ann.x
        y1 == ann.y
        x2 == ann.x + ann.width
        y2 == ann.y + ann.height
    IN  point.x >= x1 /\ point.x <= x2 /\ point.y >= y1 /\ point.y <= y2

HitTestLowest(anns, point) ==
    LET hits == {i \in DOMAIN anns : Contains(anns[i], point)}
    IN  IF hits = {} THEN NULL
        ELSE anns[CHOOSE i \in hits : \A j \in hits : i <= j]

\* [...annotations].reverse().find(...)
HitTest(anns, point) ==
    LET hits == {i \in DOMAIN anns : Contains(anns[i], point)}
    IN  IF hits = {} THEN NULL
        ELSE anns[CHOOSE i \in hits : \A j \in hits : j <= i]

\* ------------------------------------------------------ finishEditingText
\* the callback as one render made it: it closes over that render's
\* editingAnnotation (ed) and annotations (anns)
finishEditingTextOf(ed, anns) ==
    IF ed = NULL THEN <<>>
    ELSE LET textIsEmpty == TrimIsEmpty(ed.text)
             finalAnnotation ==
                 [ed EXCEPT !.height = getTextBlockHeight(ed.text, ed.width, ed.fontSize, ed.fontSize * 120)]
             isExisting == \E i \in DOMAIN anns : anns[i].id = ed.id
         IN  (IF textIsEmpty THEN <<Upd("annotations", "filter", ed.id)>>
              ELSE IF isExisting THEN <<Upd("annotations", "replace", finalAnnotation)>>
              ELSE <<Upd("annotations", "append", finalAnnotation)>>)
             \o <<Set("editingAnnotation", NULL)>>

\* the callback of the last render
finishEditingText == finishEditingTextOf(editingAnnotation, annotations)

\* ------------------------------------------------------------ processFile
ResetUpdates ==
    <<Set("annotations", <<>>), Set("drawingAnnotation", NULL),
      Set("editingAnnotation", NULL), Set("selectedAnnotationId", NoId)>>

\* processFile(null): the "Carregar outra imagem" button
ProcessFileNull ==
    /\ image # NULL
    /\ Flush(<<Set("image", NULL)>> \o ResetUpdates \o <<Set("error", "")>>)
    /\ UNCHANGED <<refs, now, decoding, export>>

\* processFile(file) from the file input or the drop zone, both shown only
\* while no image is displayed
ProcessFile(file) ==
    /\ image = NULL
    /\ IF ~file.isImage
       THEN /\ Flush(<<Set("error", "Apenas arquivos de imagem sao aceitos.")>>)
            /\ UNCHANGED decoding
       ELSE /\ Flush(<<Set("error", "")>> \o ResetUpdates
                     \o <<Set("zoom", 100), Set("offset", Pt(0, 0))>>)
            /\ decoding' = decoding \cup {file}
    /\ UNCHANGED <<refs, now, export>>

\* img.onload
ImgOnload(file) ==
    /\ file \in decoding
    /\ decoding' = decoding \ {file}
    /\ imageRef' = file
    /\ Enqueue(<<Set("image", file)>>)
    /\ UNCHANGED <<isPointerDown, startPan, startPoint, dragStartAnnotationPos,
                   zoomStartPointY, startZoom, resizeStart, now, export>>

\* The decode of img.src fails: the Image fires its error event, for which
\* processFile has set no handler.
ImgOnerror(file) ==
    /\ file \in decoding
    /\ decoding' = decoding \ {file}
    /\ UNCHANGED <<state, refs, editor, pending, now, export, probe, merger, otherTools>>

\* ------------------------------------------------------- toolbar buttons
SetTool(t) ==
    /\ image # NULL
    /\ Flush(<<Set("tool", t)>>)
    /\ UNCHANGED <<refs, now, decoding, export>>

SetColor(c) ==
    /\ image # NULL
    /\ Flush(<<Set("color", c)>>)
    /\ UNCHANGED <<refs, now, decoding, export>>

\* ------------------------------------------------------ handlePointerDown
EraserDraft(point) ==
    [Ann(TempEraserId, "eraser", "black", 0, 0, 0, 0)
        EXCEPT !.path = <<point>>, !.strokeWidth = eraserSize]

SelectDownUpdates(hitAnnotation) ==
    (IF editingAnnotation # NULL /\ editingAnnotation.id # hitAnnotation.id
     THEN finishEditingText ELSE <<>>)
    \o (IF hitAnnotation # NULL
        THEN <<Set("selectedAnnotationId", hitAnnotation.id)>>
        ELSE <<Set("selectedAnnotationId", NoId)>>)

handlePointerDown(p) ==
    LET point == getTransformedPoint(p.x, p.y)
        hitAnnotation == HitTest(annotations, point)
    IN  /\ image # NULL
        /\ isPointerDown' = TRUE
        /\ startPan' = Pt(p.x - offset.x, p.y - offset.y)
        /\ zoomStartPointY' = p.y
        /\ startZoom' = zoom
        /\ startPoint' = point
        /\ dragStartAnnotationPos' =
              IF tool = "select" /\ hitAnnotation # NULL
              THEN Pt(hitAnnotation.x, hitAnnotation.y)
              ELSE dragStartAnnotationPos
        /\ Flush(IF tool = "select" THEN SelectDownUpdates(hitAnnotation)
                 ELSE IF tool = "eraser"
                      THEN <<Set("drawingAnnotation", EraserDraft(point))>>
                      ELSE <<>>)
        /\ UNCHANGED <<imageRef, resizeStart, now, decoding, export>>

\* ------------------------------------------------------ handlePointerMove
\* The clamp without its lower limit.
ClampZoomUpperOnly(newZoom) == Min(MAX_ZOOM, newZoom)

ClampZoom(newZoom) == Min(MAX_ZOOM, Max(MIN_ZOOM, newZoom))

ZoomMoveUpdates(p) ==
    LET deltaY == zoomStartPointY - p.y
        newZoom == RoundDiv(startZoom * ExpScaled(deltaY), 10000)
    IN  <<Set("zoom", ClampZoom(newZoom))>>

\* A pan that shifts the stored geometry instead of the view.
PanMoveShiftsStore(p) ==
    <<Set("annotations",
          [i \in DOMAIN annotations |->
              [annotations[i] EXCEPT !.x = @ + (p.x - startPan.x) * 100,
                                     !.y = @ + (p.y - startPan.y) * 100]])>>

PanMoveUpdates(p) ==
    <<Set("offset", Pt(p.x - startPan.x, p.y - startPan.y))>>

DragMoveUpdates(point) ==
    LET dx == point.x - startPoint.x
        dy == point.y - startPoint.y
    IN  <<Upd("annotations", "move",
              [id |-> selectedAnnotationId,
               x |-> dragStartAnnotationPos.x + dx,
               y |-> dragStartAnnotationPos.y + dy])>>

DraftShape(point) ==
    Ann(TempId(now), tool, color, startPoint.x, startPoint.y,
        point.x - startPoint.x, point.y - startPoint.y)

PointerMoveUpdates(p) ==
    IF ~isPointerDown \/ image = NULL THEN <<>>
    ELSE IF tool = "zoom" THEN ZoomMoveUpdates(p)
    ELSE IF tool = "select" /\ selectedAnnotationId = NoId THEN PanMoveUpdates(p)
    ELSE LET point == getTransformedPoint(p.x, p.y)
         IN  IF tool = "select" /\ selectedAnnotationId # NoId
                /\ dragStartAnnotationPos # NoPos
             THEN DragMoveUpdates(point)
             ELSE IF tool = "rect" \/ tool = "arrow"
             THEN <<Set("drawingAnnotation", DraftShape(point))>>
             ELSE IF tool = "eraser" /\ drawingAnnotation # NULL
             THEN <<Upd("drawingAnnotation", "appendPoint", point)>>
             ELSE <<>>

handlePointerMove(p) ==
    /\ image # NULL
    /\ Enqueue(PointerMoveUpdates(p))
    /\ UNCHANGED <<refs, now, decoding, export>>

\* -------------------------------------------------------- handlePointerUp
\* The commit without the test for dot erasures.
CommitAnyDraft(d) ==
    <<Upd("annotations", "append", [d EXCEPT !.id = AnnId(now)])>>

CommitDraft(d) ==
    IF d.type = "eraser" /\ Len(d.path) < 2 THEN <<>>
    ELSE <<Upd("annotations", "append", [d EXCEPT !.id = AnnId(now)])>>

PointerUpUpdates ==
    IF drawingAnnotation # NULL
    THEN CommitDraft(drawingAnnotation) \o <<Set("drawingAnnotation", NULL)>>
    ELSE <<>>

\* onPointerUp
handlePointerUp ==
    /\ image # NULL
    /\ isPointerDown' = FALSE
    /\ dragStartAnnotationPos' = NoPos
    /\ Flush(PointerUpUpdates)
    /\ UNCHANGED <<imageRef, startPan, startPoint, zoomStartPointY, startZoom,
                   resizeStart, now, decoding, export>>

\* a leave that drops the draft instead of committing it
LeaveDropsDraft ==
    /\ image # NULL
    /\ isPointerDown' = FALSE
    /\ dragStartAnnotationPos' = NoPos
    /\ Enqueue(IF drawingAnnotation # NULL THEN <<Set("drawingAnnotation", NULL)>> ELSE <<>>)
    /\ UNCHANGED <<imageRef, startPan, startPoint, zoomStartPointY, startZoom,
                   resizeStart, now, decoding, export>>

\* onPointerLeave: the same handler, dispatched as a continuous event
handlePointerLeave ==
    /\ image # NULL
    /\ isPointerDown' = FALSE
    /\ dragStartAnnotationPos' = NoPos
    /\ Enqueue(PointerUpUpdates)
    /\ UNCHANGED <<imageRef, startPan, startPoint, zoomStartPointY, startZoom,
                   resizeStart, now, decoding, export>>

\* ------------------------------------------------------ handleCanvasClick
NewText(point) ==
    LET fontSize == Max(16, (image.naturalWidth * 2) \div 100)
    IN  [Ann(AnnId(now), "text", color, point.x, point.y, 20000, fontSize * 120)
            EXCEPT !.text = EmptyText, !.fontSize = fontSize]

\* The click handler without its test for an open session.
ClickOpensAlways(p) ==
    IF tool = "text"
    THEN <<Set("editingAnnotation", NewText(getTransformedPoint(p.x, p.y))),
           Set("selectedAnnotationId", NoId)>>
    ELSE <<>>

CanvasClickUpdates(p) ==
    IF tool = "text" /\ editingAnnotation = NULL
    THEN <<Set("editingAnnotation", NewText(getTransformedPoint(p.x, p.y))),
           Set("selectedAnnotationId", NoId)>>
    ELSE <<>>

handleCanvasClick(p) ==
    /\ image # NULL
    /\ Flush(CanvasClickUpdates(p))
    /\ UNCHANGED <<refs, now, decoding, export>>

\* ------------------------------------------------- "Editar Texto" button
selectedAnnotation ==
    LET found == {i \in DOMAIN annotations : annotations[i].id = selectedAnnotationId}
    IN  IF found = {} THEN NULL
        ELSE annotations[CHOOSE i \in found : \A j \in found : i <= j]

\* The button's handler without its setSelectedAnnotationId(null).
EditTextKeepsSelection ==
    <<Set("editingAnnotation", selectedAnnotation)>>

EditTextUpdates ==
    <<Set("editingAnnotation", selectedAnnotation), Set("selectedAnnotationId", NoId)>>

EditTextClick ==
    /\ image # NULL
    /\ selectedAnnotation # NULL
    /\ selectedAnnotation.type = "text"
    /\ editingAnnotation = NULL
    /\ Flush(EditTextUpdates)
    /\ UNCHANGED <<refs, now, decoding, export>>

\* ------------------------------------------------------------ TextEditor
\* handleTextChange
TextChange(t) ==
    /\ image # NULL
    /\ editingAnnotation # NULL
    /\ Flush(<<Set("editingAnnotation", [editingAnnotation EXCEPT !.text = t])>>)
    /\ UNCHANGED <<refs, now, decoding, export>>

\* handleFontSizeChange, from the editor's - and + buttons
FontSizeUpdates(delta) ==
    LET fontSize == IF editingAnnotation.fontSize = 0 THEN 16 ELSE editingAnnotation.fontSize
    IN  <<Set("editingAnnotation",
              [editingAnnotation EXCEPT !.fontSize = Max(8, fontSize + delta)])>>

handleFontSizeChange(delta) ==
    /\ image # NULL
    /\ editingAnnotation # NULL
    /\ Flush(FontSizeUpdates(delta))
    /\ UNCHANGED <<refs, now, decoding, export>>

\* The editor's box on the screen: left/top at worldToScreen(x, y), as wide as
\* width * zoom, as high as the toolbar row, the textarea's padding and border
\* and the wrapped lines of the text (EditorChromeH is 32 + 12 px).
EditorChromeH == 44
EditorBox ==
    LET ed == editingAnnotation
        at == worldToScreen(ed.x, ed.y)
        textH == getTextBlockHeight(ed.text, ed.width, ed.fontSize, ed.fontSize * 120)
    IN  [left |-> at.x, top |-> at.y,
         right |-> at.x + RoundDiv(ed.width * zoom, 10000),
         bottom |-> at.y + EditorChromeH + RoundDiv(textH * zoom, 10000)]

\* The editor is a later sibling of the canvas (z-30): a press inside its box
\* is the editor's, never the canvas's.
CanvasReceives(p) ==
    IF editingAnnotation = NULL THEN TRUE
    ELSE p.x < EditorBox.left \/ p.x > EditorBox.right
         \/ p.y < EditorBox.top \/ p.y > EditorBox.bottom

\* handleResizeMouseDown, on the handle at the editor's right edge
handleResizeMouseDown ==
    /\ image # NULL
    /\ editingAnnotation # NULL
    /\ resizeStart' = [x |-> EditorBox.right, width |-> editingAnnotation.width]
    /\ Flush(<<Set("isResizing", TRUE)>>)
    /\ UNCHANGED <<imageRef, isPointerDown, startPan, startPoint, dragStartAnnotationPos,
                   zoomStartPointY, startZoom, now, decoding, export>>

\* handleMouseMove, the window listener registered while isResizing
ResizeUpdates(clientX) ==
    LET deltaX == clientX - resizeStart.x
        newWidth == Max(5000, resizeStart.width + RoundDiv(deltaX * 10000, zoom))
    IN  <<Set("editingAnnotation", [editingAnnotation EXCEPT !.width = newWidth])>>

handleMouseMove(clientX) ==
    /\ image # NULL
    /\ editingAnnotation # NULL
    /\ isResizing
    /\ Enqueue(ResizeUpdates(clientX))
    /\ UNCHANGED <<refs, now, decoding, export>>

\* handleMouseUp, the window listener registered while isResizing
handleMouseUp ==
    /\ image # NULL
    /\ editingAnnotation # NULL
    /\ isResizing
    /\ Flush(<<Set("isResizing", FALSE)>>)
    /\ UNCHANGED <<refs, now, decoding, export>>

\* onFinish from the textarea's Enter key, or from the document's mousedown
\* listener when the press is outside the editor
FinishEditing ==
    /\ image # NULL
    /\ editingAnnotation # NULL
    /\ Flush(finishEditingText)
    /\ UNCHANGED <<refs, now, decoding, export>>

\* ------------------------------------ TextEditor: the click-outside effect
\* handleClickOutside as one run of the effect made it: it calls the onFinish
\* of that render, which closes over that render's editingAnnotation and
\* annotations.
Closure(ed, anns) == [ed |-> ed, anns |-> anns]

\* removeEventListener takes away the listener of the effect being cleaned up,
\* the last one added among listeners made by equal renders
RemoveLast(seq, x) ==
    LET found == {i \in DOMAIN seq : seq[i] = x}
    IN  IF found = {} THEN seq
        ELSE LET k == CHOOSE i \in found : \A j \in found : j <= i
             IN  [i \in 1..(Len(seq) - 1) |-> IF i < k THEN seq[i] ELSE seq[i + 1]]

InTimers(x) == \E i \in DOMAIN timers : timers[i] = x

\* The effect with dependency [onFinish] around one render. onFinish is
\* finishEditingText, which useCallback remakes when editingAnnotation or
\* annotations changed. The cleanup removes the listener of the previous run,
\* which is on the document only if that run's timeout has fired; the new run
\* sets a timeout that will add its listener. When the editor unmounts its
\* editorRef.current becomes null and everything it left behind does nothing:
\* those listeners and timeouts are dropped here.
ClickOutsideEffect ==
    LET old == Closure(editingAnnotation, annotations)
        new == Closure(editingAnnotation', annotations')
        sameEditor == IF editingAnnotation = NULL \/ editingAnnotation' = NULL THEN FALSE
                      ELSE editingAnnotation.id = editingAnnotation'.id
    IN  IF editingAnnotation' = NULL
        THEN listeners' = <<>> /\ timers' = <<>>
        ELSE IF ~sameEditor
        THEN listeners' = <<>> /\ timers' = <<new>>
        ELSE IF new = old
        THEN UNCHANGED <<listeners, timers>>
        ELSE /\ listeners' = IF InTimers(old) THEN listeners ELSE RemoveLast(listeners, old)
             /\ timers' = Append(timers, new)

\* a step of a specification that follows the listeners, and one of a
\* specification that leaves them out
WithListeners(A) == A /\ ClickOutsideEffect /\ UNCHANGED <<probe, merger, otherTools>>
WithoutListeners(A) == A /\ UNCHANGED <<editor, probe, merger, otherTools>>

\* setTimeout(() => document.addEventListener('mousedown', handleClickOutside), 0)
\* fires: the listener is added whether or not its effect was cleaned up
TimerFire ==
    /\ timers # <<>>
    /\ listeners' = Append(listeners, Head(timers))
    /\ timers' = Tail(timers)
    /\ UNCHANGED <<state, refs, pending, now, decoding, export, probe, merger, otherTools>>

RECURSIVE ClickOutsideUpdates(_)
ClickOutsideUpdates(ls) ==
    IF ls = <<>> THEN <<>>
    ELSE finishEditingTextOf(Head(ls).ed, Head(ls).anns) \o ClickOutsideUpdates(Tail(ls))

\* A mousedown outside the editor reaches the document: every listener on it
\* runs, in the order they were added, each calling its own onFinish; React
\* applies the updates of the whole event together.
DocumentMouseDown ==
    /\ image # NULL
    /\ editingAnnotation # NULL
    /\ listeners # <<>>
    /\ Flush(ClickOutsideUpdates(listeners))
    /\ ClickOutsideEffect
    /\ UNCHANGED <<refs, now, decoding, export, probe, merger, otherTools>>

\* ------------------------------------------------------- keydown listener
DeleteKeyUpdates ==
    <<Upd("annotations", "filter", selectedAnnotationId), Set("selectedAnnotationId", NoId)>>

\* Delete or Backspace; focusInTextarea is document.activeElement being the
\* editor's textarea
handleKeyDown(focusInTextarea) ==
    /\ selectedAnnotationId # NoId
    /\ focusInTextarea => editingAnnotation # NULL
    /\ Flush(IF focusInTextarea THEN <<>> ELSE DeleteKeyUpdates)
    /\ UNCHANGED <<refs, now, decoding, export>>

\* ------------------------------------------------- draw and handleDownload
NoExport == [format |-> "none"]

\* A canvas call is recorded with its arguments and with the context state
\* that decides its pixels.  The context of a fresh canvas, and of a canvas
\* whose width has just been assigned:
CtxDefault ==
    [globalCompositeOperation |-> "source-over", lineCap |-> "butt", lineJoin |-> "miter"]

\* The context state one pass of the forEach body leaves behind.
CtxAfter(ann, ctx) ==
    IF ann.type = "eraser"
    THEN [globalCompositeOperation |-> "source-over", lineCap |-> "round", lineJoin |-> "round"]
    ELSE ctx

\* One pass of the forEach body (the switch on ann.type), in the context ctx.
PaintAnnotation(ann, ctx, lineWidth, headlen) ==
    CASE ann.type = "rect" ->
            <<[op |-> "strokeRect", x |-> ann.x, y |-> ann.y, width |-> ann.width,
               height |-> ann.height, strokeStyle |-> ann.color, lineWidth |-> lineWidth,
               lineJoin |-> ctx.lineJoin,
               globalCompositeOperation |-> ctx.globalCompositeOperation]>>
      [] ann.type = "arrow" ->
            <<[op |-> "strokeArrow", x |-> ann.x, y |-> ann.y, width |-> ann.width,
               height |-> ann.height, headlen |-> headlen, strokeStyle |-> ann.color,
               lineWidth |-> lineWidth, lineCap |-> ctx.lineCap, lineJoin |-> ctx.lineJoin,
               globalCompositeOperation |-> ctx.globalCompositeOperation]>>
      [] ann.type = "text" ->
            <<[op |-> "wrapText", x |-> ann.x, y |-> ann.y, maxWidth |-> ann.width,
               text |-> ann.text, fontSize |-> ann.fontSize,
               lineHeight |-> ann.fontSize * 120, fillStyle |-> ann.color,
               globalCompositeOperation |-> ctx.globalCompositeOperation]>>
      [] ann.type = "eraser" ->
            IF Len(ann.path) > 1
            THEN <<[op |-> "strokePath", path |-> ann.path, strokeStyle |-> "rgba(0,0,0,1)",
                    lineWidth |-> ann.strokeWidth * 100, lineCap |-> "round",
                    lineJoin |-> "round", globalCompositeOperation |-> "destination-out"]>>
            ELSE <<>>

\* The context in which the j-th entry of anns is painted.
RECURSIVE CtxBefore(_, _)
CtxBefore(anns, j) ==
    IF j = 1 THEN CtxDefault ELSE CtxAfter(anns[j - 1], CtxBefore(anns, j - 1))

RECURSIVE PaintAll(_, _, _, _)
PaintAll(anns, j, lineWidth, headlen) ==
    IF j > Len(anns) THEN <<>>
    ELSE PaintAnnotation(anns[j], CtxBefore(anns, j), lineWidth, headlen)
         \o PaintAll(anns, j + 1, lineWidth, headlen)

DrawImageOp == <<[op |-> "drawImage", image |-> imageRef, x |-> 0, y |-> 0]>>

\* draw: Math.max(4 / zoom, 2) and Math.max(15 / zoom, 8)
DrawLineWidth == Max(RoundDiv(40000, zoom), 200)
DrawHeadlen == Max(RoundDiv(150000, zoom), 800)

\* [...annotations, drawingAnnotation] without the nulls and the one under edit
DrawList ==
    SelectSeq(annotations \o <<drawingAnnotation>>,
              LAMBDA ann : ann # NULL /\ ann.id # editingAnnotation.id)

SelectionOutline ==
    IF selectedAnnotation # NULL /\ editingAnnotation = NULL
    THEN LET ctx == CtxBefore(DrawList, Len(DrawList) + 1)
         IN  <<[op |-> "strokeRect", x |-> selectedAnnotation.x, y |-> selectedAnnotation.y,
                width |-> selectedAnnotation.width, height |-> selectedAnnotation.height,
                strokeStyle |-> "#3b82f6", lineWidth |-> Max(RoundDiv(20000, zoom), 100),
                lineDash |-> <<RoundDiv(60000, zoom), RoundDiv(30000, zoom)>>,
                lineJoin |-> ctx.lineJoin,
                globalCompositeOperation |-> ctx.globalCompositeOperation]>>
    ELSE <<>>

\* What draw puts on the canvas, under Transform.
draw ==
    IF image = NULL THEN <<>>
    ELSE DrawImageOp \o PaintAll(DrawList, 1, DrawLineWidth, DrawHeadlen) \o SelectionOutline

\* A stroke width that follows the view's zoom, as the renderer's does.
ZoomedLineWidth == Max(RoundDiv(40000, zoom), 200)

\* handleDownload: ctx.lineWidth = 4 and headlen = 15
ExportLineWidth == 400
ExportHeadlen == 1500

FlattenOps == DrawImageOp \o PaintAll(annotations, 1, ExportLineWidth, ExportHeadlen)

\* image.file.name.replace(/\.[^/.]+$/, "")
StripExtension(name) == IF Len(name) > 1 THEN SubSeq(name, 1, Len(name) - 1) ELSE name

Formats == {"jpeg", "png"}

\* The export buttons are rendered only with an image, and handleDownload
\* returns at once without one. It flattens onto a new canvas and calls
\* toBlob, whose callback comes later: encodes lists the toBlob calls with
\* what the encoder has answered so far.
Encoding == [type |-> "encoding"]
Filename(format) == <<"anotado_">> \o StripExtension(image.name) \o <<format>>

handleDownload(format) ==
    /\ image # NULL
    /\ exported' = [format |-> format, width |-> image.naturalWidth,
                    height |-> image.naturalHeight, ops |-> FlattenOps,
                    mimeType |-> <<"image", format>>,
                    filename |-> Filename(format)]
    /\ encodes' = Append(encodes, [mimeType |-> <<"image", format>>,
                                   filename |-> Filename(format),
                                   result |-> Encoding])
    /\ UNCHANGED <<state, refs, editor, pending, now, decoding, saved, probe, merger, otherTools>>

Blobs == {NULL, [type |-> "blob"]}
MaxEncodes == 2
EncodeRoom == Len(encodes) < MaxEncodes
Outstanding == {i \in DOMAIN encodes : encodes[i].result = Encoding}

\* a callback that hands every answer of the encoder to saveAs
SavesAlways(blob) == TRUE
\* if (blob)
SavesBlob(blob) == blob # NULL

\* the callback of the i-th toBlob call: saveAs(blob, filename) when the blob
\* is not null, and nothing otherwise
ToBlobCallback(i, blob) ==
    /\ i \in Outstanding
    /\ encodes' = [encodes EXCEPT ![i].result = blob]
    /\ saved' = IF SavesBlob(blob)
                THEN Append(saved, [blob |-> blob, filename |-> encodes[i].filename])
                ELSE saved
    /\ UNCHANGED <<state, refs, editor, pending, now, decoding, exported, probe, merger, otherTools>>

\* ------------------------------------------------------- React and clock
Render ==
    /\ pending # <<>>
    /\ Flush(<<>>)
    /\ UNCHANGED <<refs, now, decoding, export>>

\* Date.now() advances
Tick ==
    /\ now < MaxNow
    /\ now' = now + 1
    /\ UNCHANGED <<state, refs, pending, decoding, export>>

Init ==
    /\ image = NULL
    /\ error = ""
    /\ tool = "rect"
    /\ color = MARKUP_COLORS[1]
    /\ annotations = <<>>
    /\ drawingAnnotation = NULL
    /\ editingAnnotation = NULL
    /\ selectedAnnotationId = NoId
    /\ zoom = 100
    /\ offset = Pt(0, 0)
    /\ imageRef = NULL
    /\ isPointerDown = FALSE
    /\ startPan = Pt(0, 0)
    /\ startPoint = Pt(0, 0)
    /\ dragStartAnnotationPos = NoPos
    /\ zoomStartPointY = 0
    /\ startZoom = 100
    /\ isResizing = FALSE
    /\ resizeStart = [x |-> 0, width |-> 0]
    /\ listeners = <<>>
    /\ timers = <<>>
    /\ probe = NoProbe
    /\ merger = NoMerger
    /\ imagePdf = NoImagePdf
    /\ splitter = NoSplitter
    /\ pdfEditor = NoPdfEditor
    /\ pending = <<>>
    /\ now = 0
    /\ decoding = {}
    /\ exported = NoExport
    /\ encodes = <<>>
    /\ saved = <<>>

\* ------------------------------------------------------------------ Spec
StoreRoom == Len(Cur("annotations", annotations)) < MaxAnnotations
QueueRoom == Len(pending) < MaxPending
PathRoom ==
    LET d == Cur("drawingAnnotation", drawingAnnotation)
    IN  d # NULL => Len(d.path) < MaxPath

\* The state once the first image is loaded and rendered.
InitLoaded ==
    /\ image \in ImageFiles
    /\ imageRef = image
    /\ error = ""
    /\ tool = "rect"
    /\ color = MARKUP_COLORS[1]
    /\ annotations = <<>>
    /\ drawingAnnotation = NULL
    /\ editingAnnotation = NULL
    /\ selectedAnnotationId = NoId
    /\ zoom = 100
    /\ offset = Pt(0, 0)
    /\ isPointerDown = FALSE
    /\ startPan = Pt(0, 0)
    /\ startPoint = Pt(0, 0)
    /\ dragStartAnnotationPos = NoPos
    /\ zoomStartPointY = 0
    /\ startZoom = 100
    /\ isResizing = FALSE
    /\ resizeStart = [x |-> 0, width |-> 0]
    /\ listeners = <<>>
    /\ timers = <<>>
    /\ probe = NoProbe
    /\ merger = NoMerger
    /\ imagePdf = NoImagePdf
    /\ splitter = NoSplitter
    /\ pdfEditor = NoPdfEditor
    /\ pending = <<>>
    /\ now = 0
    /\ decoding = {}
    /\ exported = NoExport
    /\ encodes = <<>>
    /\ saved = <<>>

\* The drawing session: an image is loaded and rectangles and arrows are
\* drawn on it.
ShapeTools == {"rect", "arrow"}

Next ==
    \/ WithoutListeners(\E f \in ImageFiles \cup OtherFiles : ProcessFile(f))
    \/ WithoutListeners(\E f \in ImageFiles : ImgOnload(f))
    \/ WithoutListeners(ProcessFileNull)
    \/ WithoutListeners(\E t \in ShapeTools : SetTool(t))
    \/ WithoutListeners(\E p \in DrawPts : handlePointerDown(p))
    \/ WithoutListeners(\E p \in DrawPts : QueueRoom /\ handlePointerMove(p))
    \/ WithoutListeners(StoreRoom /\ handlePointerUp)
    \/ WithoutListeners(StoreRoom /\ QueueRoom /\ handlePointerLeave)
    \/ WithoutListeners(Render)

Spec == InitLoaded /\ [][Next]_vars

\* The creation session: rectangles are drawn and text blocks are opened
\* while the clock of Date.now() runs.
IdTools == {"rect", "text"}

NextIds ==
    \/ WithoutListeners(\E t \in IdTools : SetTool(t))
    \/ WithoutListeners(\E p \in DrawPts : handlePointerDown(p))
    \/ WithoutListeners(\E p \in DrawPts : QueueRoom /\ handlePointerMove(p))
    \/ WithoutListeners(StoreRoom /\ handlePointerUp)
    \/ WithoutListeners(\E p \in DrawPts : handleCanvasClick(p))
    \/ WithoutListeners(FinishEditing)
    \/ WithoutListeners(Render)
    \/ WithoutListeners(Tick)

SpecIds == InitLoaded /\ [][NextIds]_vars

\* The erasing session: erase strokes are drawn on the loaded image.
NextErase ==
    \/ WithoutListeners(SetTool("eraser"))
    \/ WithoutListeners(\E p \in DrawPts : handlePointerDown(p))
    \/ WithoutListeners(\E p \in DrawPts : QueueRoom /\ PathRoom /\ handlePointerMove(p))
    \/ WithoutListeners(StoreRoom /\ handlePointerUp)
    \/ WithoutListeners(StoreRoom /\ QueueRoom /\ handlePointerLeave)
    \/ WithoutListeners(Render)

SpecErase == InitLoaded /\ [][NextErase]_vars

\* Drawing and selecting: rectangles are drawn in either direction and then
\* pressed with the select tool; the select tool neither pans nor drags.
\* Screen points: world (10,10), (30,30) and (50,50) at zoom 1.
PickTools == {"rect", "select"}
PickPts == {Pt(360, 360), Pt(380, 380), Pt(400, 400)}

NextPick ==
    \/ WithoutListeners(\E t \in PickTools : SetTool(t))
    \/ WithoutListeners(\E p \in PickPts : handlePointerDown(p))
    \/ WithoutListeners(\E p \in PickPts : QueueRoom /\ tool = "rect" /\ handlePointerMove(p))
    \/ WithoutListeners(StoreRoom /\ handlePointerUp)
    \/ WithoutListeners(Render)

SpecPick == InitLoaded /\ [][NextPick]_vars

\* The text session: text blocks are created, edited, resized, selected and
\* deleted.  The select tool is used for selecting only.
EditTools == {"select", "text"}
\* Screen points: world (10,10) and world (110,20) at zoom 1.
EditPts == {Pt(360, 360), Pt(460, 370)}
\* The resize handle is dragged 150 px to the left.
ResizeDeltas == {-150}

NextEdit ==
    \/ WithoutListeners(\E t \in EditTools : SetTool(t))
    \/ WithoutListeners(\E p \in EditPts : CanvasReceives(p) /\ handlePointerDown(p))
    \/ WithoutListeners(handlePointerUp)
    \/ WithoutListeners(\E p \in EditPts : CanvasReceives(p) /\ StoreRoom /\ handleCanvasClick(p))
    \/ WithoutListeners(EditTextClick)
    \/ WithoutListeners(\E t \in Texts : TextChange(t))
    \/ WithoutListeners(FinishEditing)
    \/ WithoutListeners(handleResizeMouseDown)
    \/ WithoutListeners(\E d \in ResizeDeltas : QueueRoom /\ handleMouseMove(resizeStart.x + d))
    \/ WithoutListeners(handleMouseUp)
    \/ WithoutListeners(\E b \in BOOLEAN : handleKeyDown(b))
    \/ WithoutListeners(Render)
    \/ WithoutListeners(Tick)

SpecEdit == InitLoaded /\ [][NextEdit]_vars

\* ------------------------------------------------------------------------
\* Text sessions with the editor's click-outside listener: the session is
\* committed by Enter, by a press on the canvas with the select tool, or by
\* the listeners the editor has put on the document.
MaxListeners == 2
CommitTools == {"select", "text"}
CommitTexts == Texts \cup {<<5, 5>>}
ListenerRoom == Len(timers) + Len(listeners) < MaxListeners

NextCommit ==
    \/ WithListeners(\E t \in CommitTools : SetTool(t))
    \/ WithListeners(\E p \in EditPts : CanvasReceives(p) /\ handlePointerDown(p))
    \/ WithListeners(handlePointerUp)
    \/ WithListeners(\E p \in EditPts : CanvasReceives(p) /\ StoreRoom /\ handleCanvasClick(p))
    \/ WithListeners(EditTextClick)
    \/ WithListeners(\E t \in CommitTexts : ListenerRoom /\ TextChange(t))
    \/ WithListeners(FinishEditing)
    \/ WithListeners(\E f \in BOOLEAN : handleKeyDown(f))
    \/ WithListeners(Tick)
    \/ TimerFire
    \/ DocumentMouseDown

SpecCommit == InitLoaded /\ [][NextCommit]_vars

\* ------------------------------------------------------------------------
\* Loading: files are chosen while no image is displayed, their decodes end
\* in any order, with onload or with an error; the displayed image is
\* annotated, zoomed, exported and given up for another one.
LoadTools == {"rect"}

NextLoad ==
    \/ WithoutListeners(\E f \in ImageFiles \cup MoreImageFiles \cup CorruptFiles \cup OtherFiles : ProcessFile(f))
    \/ WithoutListeners(\E f \in ImageFiles \cup MoreImageFiles : QueueRoom /\ ImgOnload(f))
    \/ \E f \in CorruptFiles : ImgOnerror(f)
    \/ WithoutListeners(ProcessFileNull)
    \/ WithoutListeners(\E t \in LoadTools : SetTool(t))
    \/ WithoutListeners(\E p \in DrawPts : handlePointerDown(p))
    \/ WithoutListeners(\E p \in DrawPts : QueueRoom /\ handlePointerMove(p))
    \/ WithoutListeners(StoreRoom /\ handlePointerUp)
    \/ WithoutListeners(Render)

SpecLoad == Init /\ [][NextLoad]_vars

\* ------------------------------------------------------------------------
\* Failures: a chosen file decodes or fails to decode; the displayed image
\* is exported and the encoder answers with a blob or with null; the image
\* is given up for another file.
NextFail ==
    \/ WithoutListeners(\E f \in ImageFiles \cup MoreImageFiles \cup CorruptFiles \cup OtherFiles : ProcessFile(f))
    \/ WithoutListeners(\E f \in ImageFiles \cup MoreImageFiles : QueueRoom /\ ImgOnload(f))
    \/ \E f \in CorruptFiles : ImgOnerror(f)
    \/ WithoutListeners(ProcessFileNull)
    \/ WithoutListeners(Render)
    \/ \E format \in Formats : EncodeRoom /\ handleDownload(format)
    \/ \E i \in DOMAIN encodes, blob \in Blobs : ToBlobCallback(i, blob)

SpecFail == Init /\ [][NextFail]_vars

\* Reloading: the view of the displayed image is zoomed, the image is given
\* up, and the next file decodes or fails to decode.
ReloadTools == {"zoom"}

NextReload ==
    \/ WithoutListeners(\E f \in ImageFiles \cup CorruptFiles : ProcessFile(f))
    \/ WithoutListeners(\E f \in ImageFiles : QueueRoom /\ ImgOnload(f))
    \/ \E f \in CorruptFiles : ImgOnerror(f)
    \/ WithoutListeners(ProcessFileNull)
    \/ WithoutListeners(\E t \in ReloadTools : SetTool(t))
    \/ WithoutListeners(\E p \in ViewPts : tool \in ReloadTools /\ handlePointerDown(p))
    \/ WithoutListeners(\E p \in ViewPts : QueueRoom /\ handlePointerMove(p))
    \/ WithoutListeners(handlePointerUp)
    \/ WithoutListeners(Render)

SpecReload == Init /\ [][NextReload]_vars

\* The view session: a text block is in the store, possibly open in the
\* editor through the "Editar Texto" button; the view is panned and zoomed,
\* and other images are loaded.  Nothing is dragged.
SeedText ==
    [Ann(AnnId(0), "text", MARKUP_COLORS[1], 1000, 1000, 20000, 1920)
        EXCEPT !.text = <<5>>, !.fontSize = 16]

InitView ==
    /\ image \in ImageFiles
    /\ imageRef = image
    /\ error = ""
    /\ tool = "select"
    /\ color = MARKUP_COLORS[1]
    /\ annotations = <<SeedText>>
    /\ drawingAnnotation = NULL
    /\ editingAnnotation \in {NULL, SeedText}
    /\ selectedAnnotationId = NoId
    /\ zoom = 100
    /\ offset = Pt(0, 0)
    /\ isPointerDown = FALSE
    /\ startPan = Pt(0, 0)
    /\ startPoint = Pt(0, 0)
    /\ dragStartAnnotationPos = NoPos
    /\ zoomStartPointY = 0
    /\ startZoom = 100
    /\ isResizing = FALSE
    /\ resizeStart = [x |-> 0, width |-> 0]
    /\ listeners = <<>>
    /\ timers = <<>>
    /\ probe = NoProbe
    /\ merger = NoMerger
    /\ imagePdf = NoImagePdf
    /\ splitter = NoSplitter
    /\ pdfEditor = NoPdfEditor
    /\ pending = <<>>
    /\ now = 0
    /\ decoding = {}
    /\ exported = NoExport
    /\ encodes = <<>>
    /\ saved = <<>>

ViewTools == {"select", "zoom"}
Abs(n) == IF n < 0 THEN -n ELSE n
\* the user drags one annotation of the samples at a time, and not further
\* than MaxDrag
MaxDrag == 1000
DragRoom(samples) ==
    \A i \in DOMAIN Cur("annotations", annotations) :
        LET ann == Cur("annotations", annotations)[i]
        IN  IF ann.id = selectedAnnotationId
            THEN Abs(ann.x - 1000) <= MaxDrag /\ Abs(ann.y - 1000) <= MaxDrag
            ELSE ann \in samples

\* the pan stays within MaxPan px of the centre
PanRoom(p) ==
    tool = "select" =>
        /\ selectedAnnotationId = NoId
        /\ Abs(p.x - startPan.x) <= MaxPan
        /\ Abs(p.y - startPan.y) <= MaxPan

NextView ==
    \/ WithoutListeners(\E f \in ImageFiles \cup OtherFiles : ProcessFile(f))
    \/ WithoutListeners(\E f \in ImageFiles : ImgOnload(f))
    \/ WithoutListeners(ProcessFileNull)
    \/ WithoutListeners(\E t \in ViewTools : SetTool(t))
    \/ WithoutListeners(\E p \in ViewPts : CanvasReceives(p) /\ handlePointerDown(p))
    \/ WithoutListeners(\E p \in ViewPts : QueueRoom /\ PanRoom(p) /\ handlePointerMove(p))
    \/ WithoutListeners(handlePointerUp)
    \/ WithoutListeners(QueueRoom /\ handlePointerLeave)
    \/ WithoutListeners(FinishEditing)
    \/ WithoutListeners(Render)

SpecView == InitView /\ [][NextView]_vars

\* The reflow session: the text block of the store is opened in the editor,
\* its content, font size and wrap width are changed, and it is committed.
FontDeltas == {-2, 2}
MaxFont == 18
FontRoom(delta) == editingAnnotation # NULL => editingAnnotation.fontSize + delta <= MaxFont

NextText ==
    \/ WithoutListeners(\E p \in EditPts : CanvasReceives(p) /\ handlePointerDown(p))
    \/ WithoutListeners(handlePointerUp)
    \/ WithoutListeners(EditTextClick)
    \/ WithoutListeners(\E t \in CommitTexts : TextChange(t))
    \/ WithoutListeners(\E delta \in FontDeltas : FontRoom(delta) /\ handleFontSizeChange(delta))
    \/ WithoutListeners(handleResizeMouseDown)
    \/ WithoutListeners(\E dx \in ResizeDeltas : QueueRoom /\ handleMouseMove(resizeStart.x + dx))
    \/ WithoutListeners(handleMouseUp)
    \/ WithoutListeners(FinishEditing)
    \/ WithoutListeners(Render)

SpecText == InitView /\ [][NextText]_vars

\* The rendering session: some store under some view is drawn and exported.
RectA == Ann(AnnId(1), "rect", MARKUP_COLORS[1], 1000, 1000, 4000, 4000)
ArrowA == Ann(AnnId(2), "arrow", MARKUP_COLORS[2], 1000, 1000, 4000, 4000)
EraseA ==
    [Ann(AnnId(3), "eraser", "black", 0, 0, 0, 0)
        EXCEPT !.path = <<Pt(1000, 1000), Pt(5000, 5000)>>, !.strokeWidth = eraserSize]
DraftA == Ann(TempId(4), "rect", MARKUP_COLORS[1], 1000, 1000, 2000, 2000)
RenderSamples == {SeedText, RectA, ArrowA, EraseA}

\* every order of up to MaxStore different samples
RenderStores ==
    {st \in UNION {[1..n -> RenderSamples] : n \in 0..MaxStore} :
        \A i, j \in DOMAIN st : i # j => st[i] # st[j]}
RenderZooms == {100, 300, MIN_ZOOM}
RenderOffsets == {Pt(0, 0), Pt(30, -20)}

InitRender ==
    /\ image \in ImageFiles
    /\ imageRef = image
    /\ error = ""
    /\ tool \in {"select", "rect"}
    /\ color = MARKUP_COLORS[1]
    /\ annotations \in RenderStores
    /\ drawingAnnotation \in (IF tool = "rect" THEN {NULL, DraftA} ELSE {NULL})
    /\ editingAnnotation = NULL
    /\ selectedAnnotationId \in
          (IF tool = "select" /\ annotations # <<>> THEN {NoId, annotations[1].id} ELSE {NoId})
    /\ zoom \in RenderZooms
    /\ offset \in RenderOffsets
    /\ isPointerDown = (drawingAnnotation # NULL)
    /\ startPan = Pt(0, 0)
    /\ startPoint = Pt(1000, 1000)
    /\ dragStartAnnotationPos = NoPos
    /\ zoomStartPointY = 0
    /\ startZoom = zoom
    /\ isResizing = FALSE
    /\ resizeStart = [x |-> 0, width |-> 0]
    /\ listeners = <<>>
    /\ timers = <<>>
    /\ probe = NoProbe
    /\ merger = NoMerger
    /\ imagePdf = NoImagePdf
    /\ splitter = NoSplitter
    /\ pdfEditor = NoPdfEditor
    /\ pending = <<>>
    /\ now = 4
    /\ decoding = {}
    /\ exported = NoExport
    /\ encodes = <<>>
    /\ saved = <<>>

NextRender ==
    \/ \E format \in Formats : EncodeRoom /\ handleDownload(format)
    \/ \E i \in DOMAIN encodes, blob \in Blobs : ToBlobCallback(i, blob)

SpecRender == InitRender /\ [][NextRender]_vars

\* The selecting session: some store is on the image, possibly with a draft
\* that a pointer-up has left behind; annotations are selected with the
\* select tool, dragged and deleted.
\* Screen points at zoom 1: world (0,0), the image's corner; (10,10), the
\* near corner of the samples; (50,50), their far corner; (90,90), outside.
SelectPts == {Pt(350, 350), Pt(360, 360), Pt(400, 400), Pt(440, 440)}

InitSelect ==
    /\ image \in ImageFiles
    /\ imageRef = image
    /\ error = ""
    /\ tool = "select"
    /\ color = MARKUP_COLORS[1]
    /\ annotations \in RenderStores
    /\ drawingAnnotation \in {NULL, DraftA}
    /\ editingAnnotation = NULL
    /\ selectedAnnotationId = NoId
    /\ zoom = 100
    /\ offset = Pt(0, 0)
    /\ isPointerDown = FALSE
    /\ startPan = Pt(0, 0)
    /\ startPoint = Pt(1000, 1000)
    /\ dragStartAnnotationPos = NoPos
    /\ zoomStartPointY = 0
    /\ startZoom = zoom
    /\ isResizing = FALSE
    /\ resizeStart = [x |-> 0, width |-> 0]
    /\ listeners = <<>>
    /\ timers = <<>>
    /\ probe = NoProbe
    /\ merger = NoMerger
    /\ imagePdf = NoImagePdf
    /\ splitter = NoSplitter
    /\ pdfEditor = NoPdfEditor
    /\ pending = <<>>
    /\ now = 4
    /\ decoding = {}
    /\ exported = NoExport
    /\ encodes = <<>>
    /\ saved = <<>>

NextSelect ==
    \/ WithoutListeners(\E p \in SelectPts : handlePointerDown(p))
    \/ WithoutListeners(\E p \in SelectPts : QueueRoom /\ selectedAnnotationId # NoId /\ DragRoom(RenderSamples) /\ handlePointerMove(p))
    \/ WithoutListeners(handlePointerUp)
    \/ WithoutListeners(handleKeyDown(FALSE))
    \/ WithoutListeners(Render)

SpecSelect == InitSelect /\ [][NextSelect]_vars

\* The panning session: one rectangle is on the image; with the select tool
\* the view is panned and the rectangle dragged, with the zoom tool the view
\* is zoomed, and the image is loaded again.
PanTools == {"select", "zoom"}
PanPts == {Pt(360, 360), Pt(440, 440)}
GestureRoom(p) ==
    IF tool = "zoom" THEN zoom = 100
    ELSE IF selectedAnnotationId = NoId
    THEN Abs(p.x - startPan.x) <= MaxPan /\ Abs(p.y - startPan.y) <= MaxPan
    ELSE zoom = 100 /\ offset = Pt(0, 0) /\ DragRoom({RectA})

InitPan ==
    /\ InitSelect
    /\ annotations = <<RectA>>
    /\ drawingAnnotation = NULL

NextPan ==
    \/ WithoutListeners(\E f \in ImageFiles : ProcessFile(f))
    \/ WithoutListeners(\E f \in ImageFiles : ImgOnload(f))
    \/ WithoutListeners(ProcessFileNull)
    \/ WithoutListeners(\E t \in PanTools : SetTool(t))
    \/ WithoutListeners(\E p \in PanPts : handlePointerDown(p))
    \/ WithoutListeners(\E p \in PanPts : QueueRoom /\ GestureRoom(p) /\ handlePointerMove(p))
    \/ WithoutListeners(handlePointerUp)
    \/ WithoutListeners(handleKeyDown(FALSE))
    \/ WithoutListeners(Render)

SpecPan == InitPan /\ [][NextPan]_vars

\* ------------------------------------------------------------------------
\* The two point mappings in exact arithmetic. A coordinate is a fraction
\* n/d in lowest terms with d > 0; a matrix is the DOMMatrix of a uniform
\* scale and a translation: x' = a x + e, y' = a y + f.
RECURSIVE Gcd(_, _)
Gcd(a, b) == IF b = 0 THEN a ELSE Gcd(b, a % b)
Frac(n, d) == LET g == Gcd(Abs(n), d) IN [n |-> n \div g, d |-> d \div g]
RAdd(x, y) == Frac(x.n * y.d + y.n * x.d, x.d * y.d)
RMul(x, y) == Frac(x.n * y.n, x.d * y.d)
RNeg(x) == [n |-> -x.n, d |-> x.d]
RInv(x) == IF x.n > 0 THEN Frac(x.d, x.n) ELSE Frac(-x.d, -x.n)

Identity == [a |-> Frac(1, 1), e |-> Frac(0, 1), f |-> Frac(0, 1)]
\* ctx.translate and ctx.scale multiply the current matrix on the right
translate(m, tx, ty) ==
    [m EXCEPT !.e = RAdd(RMul(m.a, tx), m.e), !.f = RAdd(RMul(m.a, ty), m.f)]
scale(m, k) == [m EXCEPT !.a = RMul(m.a, k)]
\* an inverse that turns the scale and the translation round separately
InverseByParts(m) ==
    [a |-> RInv(m.a), e |-> RNeg(m.e), f |-> RNeg(m.f)]
\* DOMMatrix.inverse()
inverse(m) ==
    [a |-> RInv(m.a),
     e |-> RNeg(RMul(m.e, RInv(m.a))),
     f |-> RNeg(RMul(m.f, RInv(m.a)))]
\* new DOMPoint(x, y).matrixTransform(m)
matrixTransform(p, m) ==
    [x |-> RAdd(RMul(m.a, p.x), m.e), y |-> RAdd(RMul(m.a, p.y), m.f)]

\* The transform draw leaves on the context, for a view v: zoom in
\* hundredths, offset in px, the surface's width and height and the image's
\* natural size.
ViewTransform(v) ==
    translate(scale(translate(Identity,
                              RAdd(Frac(v.width, 2), Frac(v.offset.x, 1)),
                              RAdd(Frac(v.height, 2), Frac(v.offset.y, 1))),
                    Frac(v.zoom, 100)),
              Frac(-v.naturalWidth, 2), Frac(-v.naturalHeight, 2))

\* getTransformedPoint and worldToScreen on the context of view v
toWorld(v, p) == matrixTransform(p, inverse(ViewTransform(v)))
toScreen(v, p) == matrixTransform(p, ViewTransform(v))

MaxSteps == 2
ProbeZooms == {MIN_ZOOM, 37, 100, MAX_ZOOM}
ProbeOffsets == {Pt(0, 0), Pt(-37, 12)}
Views ==
    [zoom : ProbeZooms, offset : ProbeOffsets, width : {800, 641}, height : {600},
     naturalWidth : {100, 333}, naturalHeight : {100}]
ProbePoints ==
    {[x |-> Frac(0, 1), y |-> Frac(0, 1)],
     [x |-> Frac(123, 4), y |-> Frac(-7, 3)],
     [x |-> Frac(400, 1), y |-> Frac(300, 1)]}

\* a point is taken through one mapping and then through the other
ProbeToScreen ==
    /\ probe # NoProbe
    /\ probe.space = "world"
    /\ probe.steps < MaxSteps
    /\ probe' = [probe EXCEPT !.space = "screen", !.steps = @ + 1,
                              !.point = toScreen(probe.view, probe.point)]
    /\ UNCHANGED <<state, refs, editor, pending, now, decoding, export, merger, otherTools>>

ProbeToWorld ==
    /\ probe # NoProbe
    /\ probe.space = "screen"
    /\ probe.steps < MaxSteps
    /\ probe' = [probe EXCEPT !.space = "world", !.steps = @ + 1,
                              !.point = toWorld(probe.view, probe.point)]
    /\ UNCHANGED <<state, refs, editor, pending, now, decoding, export, merger, otherTools>>

InitProbe ==
    /\ image = NULL
    /\ error = ""
    /\ tool = "rect"
    /\ color = MARKUP_COLORS[1]
    /\ annotations = <<>>
    /\ drawingAnnotation = NULL
    /\ editingAnnotation = NULL
    /\ selectedAnnotationId = NoId
    /\ zoom = 100
    /\ offset = Pt(0, 0)
    /\ imageRef = NULL
    /\ isPointerDown = FALSE
    /\ startPan = Pt(0, 0)
    /\ startPoint = Pt(0, 0)
    /\ dragStartAnnotationPos = NoPos
    /\ zoomStartPointY = 0
    /\ startZoom = 100
    /\ isResizing = FALSE
    /\ resizeStart = [x |-> 0, width |-> 0]
    /\ listeners = <<>>
    /\ timers = <<>>
    /\ probe \in [space : {"world", "screen"}, view : Views, origin : ProbePoints,
                 point : ProbePoints, steps : {0}]
    /\ probe.point = probe.origin
    /\ merger = NoMerger
    /\ imagePdf = NoImagePdf
    /\ splitter = NoSplitter
    /\ pdfEditor = NoPdfEditor
    /\ pending = <<>>
    /\ now = 0
    /\ decoding = {}
    /\ exported = NoExport
    /\ encodes = <<>>
    /\ saved = <<>>

NextProbe ==
    \/ ProbeToScreen
    \/ ProbeToWorld

SpecProbe == InitProbe /\ [][NextProbe]_vars

\* ------------------------------------------------------------------------
\* PdfMerger: files are added and removed, and merged into one document.
Pdf(name, isPdf, valid) == [name |-> name, isPdf |-> isPdf, valid |-> valid]
PdfA == Pdf(<<"a", "pdf">>, TRUE, TRUE)
PdfB == Pdf(<<"b", "pdf">>, TRUE, TRUE)
\* a file of type application/pdf that PDFDocument.load rejects
PdfBroken == Pdf(<<"c", "pdf">>, TRUE, FALSE)
NotPdf == Pdf(<<"d", "txt">>, FALSE, FALSE)
\* e.target.files / e.dataTransfer.files
FileLists == {<<PdfA>>, <<PdfB>>, <<PdfBroken>>, <<NotPdf>>, <<PdfA, PdfB>>}
MaxFiles == 3
MaxPreviews == 1
MaxMerges == 1
Annotator == <<state, refs, editor, pending, now, decoding, export, probe>>

\* processFiles up to the first await of its loop; without a PDF among the
\* files the loop awaits nothing and the function runs to its end
processFiles(files) ==
    LET newFiles == SelectSeq(files, LAMBDA file : file.isPdf)
        newError == IF Len(newFiles) # Len(files)
                    THEN "Apenas arquivos PDF sao aceitos." ELSE ""
    IN  /\ Len(merger.previews) < MaxPreviews
        /\ Len(merger.pdfFiles) + Len(newFiles) <= MaxFiles
        /\ merger' = IF newFiles = <<>>
                      THEN [merger EXCEPT !.error = newError, !.isLoading = FALSE]
                      ELSE [merger EXCEPT !.error = newError, !.isLoading = TRUE,
                                          !.previews = Append(@, newFiles)]
        /\ UNCHANGED <<Annotator, otherTools>>

\* processFiles once the previews of its files are generated
PreviewsDone ==
    /\ merger.previews # <<>>
    /\ merger' = [merger EXCEPT !.pdfFiles = @ \o Head(merger.previews),
                                !.isLoading = FALSE,
                                !.previews = Tail(@)]
    /\ UNCHANGED <<Annotator, otherTools>>

removeFile(index) ==
    /\ index \in DOMAIN merger.pdfFiles
    /\ merger' = [merger EXCEPT !.pdfFiles =
                      SubSeq(@, 1, index - 1) \o SubSeq(@, index + 1, Len(@))]
    /\ UNCHANGED <<Annotator, otherTools>>

\* a click on the merge button, which is disabled while isLoading or with
\* fewer than two files: mergePdfs up to its first await
mergePdfs ==
    /\ ~merger.isLoading
    /\ Len(merger.pdfFiles) >= 2
    /\ Len(merger.merging) < MaxMerges
    /\ merger' = [merger EXCEPT !.error = "", !.isLoading = TRUE,
                                !.merging = Append(@, [files |-> merger.pdfFiles,
                                                       next |-> 1, pages |-> <<>>])]
    /\ UNCHANGED <<Annotator, otherTools>>

WithoutRun(i) == SubSeq(merger.merging, 1, i - 1) \o SubSeq(merger.merging, i + 1, Len(merger.merging))

\* one round of the loop of mergePdfs: the file is loaded and its pages are
\* copied, or PDFDocument.load throws and the catch and finally blocks run
MergeLoad(i) ==
    /\ i \in DOMAIN merger.merging
    /\ LET run == merger.merging[i]
       IN  /\ run.next <= Len(run.files)
           /\ merger' =
                 IF run.files[run.next].valid
                 THEN [merger EXCEPT !.merging[i].pages = Append(@, run.files[run.next].name),
                                     !.merging[i].next = @ + 1]
                 ELSE [merger EXCEPT
                         !.error = "Ocorreu um erro ao juntar os PDFs. Por favor, verifique se sao arquivos PDF validos.",
                         !.isLoading = FALSE,
                         !.merging = WithoutRun(i)]
    /\ UNCHANGED <<Annotator, otherTools>>

\* the end of mergePdfs: mergedPdf.save(), the Blob, and the finally block
MergeSave(i) ==
    /\ i \in DOMAIN merger.merging
    /\ merger.merging[i].next > Len(merger.merging[i].files)
    /\ merger' = [merger EXCEPT !.isLoading = FALSE, !.merging = WithoutRun(i)]
    /\ UNCHANGED <<Annotator, otherTools>>

NextMerge ==
    \/ \E files \in FileLists : processFiles(files)
    \/ PreviewsDone
    \/ \E index \in 1..MaxFiles : removeFile(index)
    \/ mergePdfs
    \/ \E i \in 1..MaxMerges : MergeLoad(i)
    \/ \E i \in 1..MaxMerges : MergeSave(i)

SpecMerge == Init /\ [][NextMerge]_vars

\* ------------------------------------------------------------------------
\* ImageToPdf: the page list and the background removal of the active page.
Upload(name, isImage) == [name |-> name, isImage |-> isImage]
PicA == Upload(<<"a", "png">>, TRUE)
PicB == Upload(<<"b", "png">>, TRUE)
NotPic == Upload(<<"d", "txt">>, FALSE)
\* e.target.files / e.dataTransfer.files; the user adds a picture once
UploadLists == {<<PicA>>, <<PicB>>, <<NotPic>>, <<PicA, NotPic>>}
MaxRotation == 90
NotImagePdf == <<Annotator, merger, splitter, pdfEditor>>

NewPage(file) == [id |-> file.name, rotation |-> 0, filter |-> "none", bgRemoved |-> FALSE]
RECURSIVE NewPages(_)
NewPages(files) ==
    IF files = <<>> THEN <<>> ELSE <<NewPage(Head(files))>> \o NewPages(Tail(files))

\* processFiles of ImageToPdf
processImageFiles(files) ==
    LET newImageFiles == SelectSeq(files, LAMBDA file : file.isImage)
    IN  /\ \A i \in DOMAIN newImageFiles : \A j \in DOMAIN imagePdf.pages :
              imagePdf.pages[j].id # newImageFiles[i].name
        /\ imagePdf' = [imagePdf EXCEPT
              !.error = IF Len(newImageFiles) # Len(files)
                        THEN "Apenas arquivos de imagem sao aceitos." ELSE "",
              !.pages = @ \o NewPages(newImageFiles),
              !.activePageIndex = IF @ = NoIndex THEN 0 ELSE @]
        /\ UNCHANGED NotImagePdf

\* a click on the thumbnail at index
SelectPage(index) ==
    /\ index \in 0..(Len(imagePdf.pages) - 1)
    /\ imagePdf' = [imagePdf EXCEPT !.activePageIndex = index]
    /\ UNCHANGED NotImagePdf

\* prev.filter((_, index) => index !== indexToRemove), indices from 0
WithoutPage(pgs, index) == SubSeq(pgs, 1, index) \o SubSeq(pgs, index + 2, Len(pgs))

removePage(indexToRemove) ==
    /\ indexToRemove \in 0..(Len(imagePdf.pages) - 1)
    /\ imagePdf' = [imagePdf EXCEPT
          !.pages = WithoutPage(@, indexToRemove),
          !.activePageIndex =
              IF @ = indexToRemove
              THEN (IF Len(imagePdf.pages) > 1 THEN 0 ELSE NoIndex)
              ELSE IF @ # NoIndex /\ @ > indexToRemove THEN @ - 1
              ELSE @]
    /\ UNCHANGED NotImagePdf

\* items.splice(at, 0, item), at from 0
InsertAt(pgs, at, item) == SubSeq(pgs, 1, at) \o <<item>> \o SubSeq(pgs, at + 1, Len(pgs))

\* onDragStart on the thumbnail at dragged, onDragEnter on the one at
\* draggedOver, and onDragEnd
handleDragSort(dragged, draggedOver) ==
    /\ dragged \in 0..(Len(imagePdf.pages) - 1)
    /\ draggedOver \in 0..(Len(imagePdf.pages) - 1)
    /\ imagePdf.activePageIndex # NoIndex
    /\ LET active == imagePdf.activePageIndex
           items == InsertAt(WithoutPage(imagePdf.pages, dragged), draggedOver,
                             imagePdf.pages[dragged + 1])
       IN  imagePdf' = [imagePdf EXCEPT
             !.pages = items,
             !.activePageIndex =
                 IF active = dragged THEN draggedOver
                 ELSE IF dragged < active /\ draggedOver >= active THEN active - 1
                 ELSE IF dragged > active /\ draggedOver <= active THEN active + 1
                 ELSE active]
    /\ UNCHANGED NotImagePdf

\* pages.map((page, index) => index === activePageIndex ? {...page, ...updates} : page)
\* with the pages and activePageIndex of one render
MapActive(pgs, active, updates) ==
    [i \in DOMAIN pgs |->
       IF i - 1 = active
       THEN [k \in DOMAIN pgs[i] |-> IF k \in DOMAIN updates THEN updates[k] ELSE pgs[i][k]]
       ELSE pgs[i]]

HasActivePage ==
    imagePdf.activePageIndex # NoIndex /\ imagePdf.activePageIndex < Len(imagePdf.pages)

\* the rotate-right button: updateActivePage({rotation: (rotation + 90) % 360})
RotatePage ==
    /\ HasActivePage
    /\ imagePdf' = [imagePdf EXCEPT !.pages =
          MapActive(@, imagePdf.activePageIndex,
                    [rotation |-> (@[imagePdf.activePageIndex + 1].rotation + 90) % 360])]
    /\ UNCHANGED NotImagePdf

PageFilters == {"none", "grayscale"}
\* the filter buttons: updateActivePage({filter})
FilterPage(filter) ==
    /\ HasActivePage
    /\ imagePdf' = [imagePdf EXCEPT !.pages =
          MapActive(@, imagePdf.activePageIndex, [filter |-> filter])]
    /\ UNCHANGED NotImagePdf

\* handleRemoveBackground up to its await; the button is disabled while
\* isAiLoading
handleRemoveBackground ==
    /\ HasActivePage
    /\ ~imagePdf.isAiLoading
    /\ imagePdf' = [imagePdf EXCEPT
          !.isAiLoading = TRUE, !.error = "",
          !.calls = Append(@, [pages |-> imagePdf.pages,
                               activePageIndex |-> imagePdf.activePageIndex])]
    /\ UNCHANGED NotImagePdf

\* the updates of a finished removal: {..., bgRemoved: true, filter: 'none'}
BgRemoved == [bgRemoved |-> TRUE, filter |-> "none"]

\* removeBackground answers: handleRemoveBackground goes on with the
\* updateActivePage of the render that started it, or with its catch block
RemoveBackgroundDone(ok) ==
    /\ imagePdf.calls # <<>>
    /\ LET call == Head(imagePdf.calls)
       IN  imagePdf' =
             IF ok
             THEN [imagePdf EXCEPT
                     !.pages = MapActive(call.pages, call.activePageIndex, BgRemoved),
                     !.isAiLoading = FALSE, !.calls = Tail(@)]
             ELSE [imagePdf EXCEPT
                     !.error = "Erro ao remover o fundo da imagem.",
                     !.isAiLoading = FALSE, !.calls = Tail(@)]
    /\ UNCHANGED NotImagePdf

MaxPages == 2
NextImagePdf ==
    \/ \E files \in UploadLists : processImageFiles(files)
    \/ \E index \in 0..(MaxPages - 1) : SelectPage(index)
    \/ \E index \in 0..(MaxPages - 1) : removePage(index)
    \/ \E dragged, draggedOver \in 0..(MaxPages - 1) : handleDragSort(dragged, draggedOver)
    \/ (\A i \in DOMAIN imagePdf.pages : imagePdf.pages[i].rotation < MaxRotation) /\ RotatePage
    \/ \E filter \in PageFilters : FilterPage(filter)
    \/ handleRemoveBackground
    \/ \E ok \in BOOLEAN : RemoveBackgroundDone(ok)

SpecImagePdf == Init /\ [][NextImagePdf]_vars

\* ------------------------------------------------------------------------
\* PdfSplitter and the PDF editor: choosing a file and reading its pages.
\* A file reaches processFile from the file input or from a drop on the
\* component, which also accepts one while an earlier file is being read.
PdfInputs == {PdfA, PdfB, PdfBroken, NotPdf}
\* pdf.numPages of the valid files
NumPages(file) == IF file = PdfA THEN 1 ELSE 2
\* thumbnails of the pages 1..numPages
Thumbnails(file) == [i \in 1..NumPages(file) |-> i]
MaxReads == 2
WithoutRead(reads, i) == SubSeq(reads, 1, i - 1) \o SubSeq(reads, i + 1, Len(reads))

\* processFile of PdfSplitter, with renderPdfPages up to its first await
SplitterProcessFile(file) ==
    /\ splitter' =
          IF file.isPdf
          THEN [splitter EXCEPT !.pdfFile = file, !.isLoading = TRUE, !.error = "",
                                !.pageThumbnails = <<>>, !.totalPages = 0,
                                !.reading = Append(@, file)]
          ELSE \* setError('Por favor, selecione um arquivo PDF.'); resetState()
               [NoSplitter EXCEPT !.reading = splitter.reading]
    /\ UNCHANGED <<Annotator, merger, imagePdf, pdfEditor>>

\* renderPdfPages of PdfSplitter from its awaits to its end, for the i-th
\* outstanding read: the thumbnails, or the catch block (setError, then
\* resetState), and finally setIsLoading(false)
SplitterReadDone(i) ==
    /\ i \in DOMAIN splitter.reading
    /\ LET file == splitter.reading[i]
       IN  splitter' =
             IF file.valid
             THEN [splitter EXCEPT !.totalPages = NumPages(file),
                                   !.pageThumbnails = Thumbnails(file),
                                   !.isLoading = FALSE,
                                   !.reading = WithoutRead(@, i)]
             ELSE [NoSplitter EXCEPT !.reading = WithoutRead(splitter.reading, i)]
    /\ UNCHANGED <<Annotator, merger, imagePdf, pdfEditor>>

\* processFile of the PDF editor, with renderPdfPages up to its first
\* await: setIsLoading(true); resetState(); setPdfFile(file)
EditorProcessFile(file) ==
    /\ pdfEditor' =
          IF file.isPdf
          THEN [NoPdfEditor EXCEPT !.pdfFile = file, !.reading = Append(pdfEditor.reading, file)]
          ELSE \* setError('Por favor, selecione um arquivo PDF.'); resetState()
               [NoPdfEditor EXCEPT !.reading = pdfEditor.reading]
    /\ UNCHANGED <<Annotator, merger, imagePdf, splitter>>

\* renderPdfPages of the PDF editor from its awaits to its end, for the
\* i-th outstanding read
EditorReadDone(i) ==
    /\ i \in DOMAIN pdfEditor.reading
    /\ LET file == pdfEditor.reading[i]
       IN  pdfEditor' =
             IF file.valid
             THEN [pdfEditor EXCEPT !.pageThumbnails = Thumbnails(file),
                                    !.activePage = Thumbnails(file)[1],
                                    !.isLoading = FALSE,
                                    !.reading = WithoutRead(@, i)]
             ELSE [NoPdfEditor EXCEPT !.reading = WithoutRead(pdfEditor.reading, i)]
    /\ UNCHANGED <<Annotator, merger, imagePdf, splitter>>

NextRead ==
    \/ \E file \in PdfInputs :
         (file.isPdf => Len(splitter.reading) < MaxReads) /\ SplitterProcessFile(file)
    \/ \E i \in 1..MaxReads : SplitterReadDone(i)
    \/ \E file \in PdfInputs :
         (file.isPdf => Len(pdfEditor.reading) < MaxReads) /\ EditorProcessFile(file)
    \/ \E i \in 1..MaxReads : EditorReadDone(i)

SpecRead == Init /\ [][NextRead]_vars

\* ================================================================ claims
\* ids of the annotations in the store
StoredIds == {annotations[i].id : i \in DOMAIN annotations}

\* C1: in every reachable state, rendered or still pending, the zoom lies in
\* [MIN_ZOOM, MAX_ZOOM] (0.2 to 5), whatever the zoom drags were, and the load
\* of an image file sets it to 1.
C1_ZoomInRange ==
    /\ [](/\ zoom >= MIN_ZOOM /\ zoom <= MAX_ZOOM
          /\ Cur("zoom", zoom) >= MIN_ZOOM /\ Cur("zoom", zoom) <= MAX_ZOOM)
    /\ [][(\E f \in ImageFiles : ProcessFile(f)) => zoom' = 100]_vars

\* A zoom drag downwards has been cut off at the lower limit.
C1_Witness == tool = "zoom" /\ zoom = MIN_ZOOM /\ startZoom > MIN_ZOOM

\* What a step leaves of the store, the draft, the selection and the edit
\* session, pending entries included.
FrameKept ==
    /\ Reduce("annotations", annotations', pending') = Cur("annotations", annotations)
    /\ Reduce("drawingAnnotation", drawingAnnotation', pending')
          = Cur("drawingAnnotation", drawingAnnotation)
    /\ Reduce("selectedAnnotationId", selectedAnnotationId', pending')
          = Cur("selectedAnnotationId", selectedAnnotationId)
    /\ Reduce("editingAnnotation", editingAnnotation', pending')
          = Cur("editingAnnotation", editingAnnotation)

\* the zoom tool, or the select tool with nothing selected (and nothing hit)
PanOrZoom ==
    \/ tool = "zoom"
    \/ tool = "select" /\ selectedAnnotationId = NoId /\ selectedAnnotationId' = NoId

GestureDown == \E p \in ViewPts : CanvasReceives(p) /\ handlePointerDown(p)
GestureMove == \E p \in ViewPts : handlePointerMove(p)
GestureUp == handlePointerUp \/ handlePointerLeave

C5_GestureCommitsDraft ==
    [][LET d == Cur("drawingAnnotation", drawingAnnotation)
       IN  (/\ handlePointerUp
            /\ isPointerDown
            /\ tool \in ShapeTools
            /\ d # NULL
            /\ d.x = startPoint.x /\ d.y = startPoint.y
            /\ (d.width # 0 \/ d.height # 0))
           => /\ annotations' = Append(Cur("annotations", annotations),
                                       [d EXCEPT !.id = AnnId(now)])
              /\ drawingAnnotation' = NULL]_vars

\* C6 (as the spec states it): no rectangle or arrow with width = 0 and
\* height = 0 is ever in the store.
C6_NoDegenerateShape ==
    \A i \in DOMAIN annotations :
        annotations[i].type \in ShapeTools
            => (annotations[i].width # 0 \/ annotations[i].height # 0)

\* C7: an erase gesture released with fewer than 2 path points leaves the
\* store unchanged and clears the draft, and no erase stroke with fewer than
\* 2 path points is ever in the store.
C7_ShortEraseDiscarded ==
    /\ [](\A i \in DOMAIN annotations :
             annotations[i].type = "eraser" => Len(annotations[i].path) >= 2)
    /\ [][LET d == Cur("drawingAnnotation", drawingAnnotation)
          IN  (/\ handlePointerUp \/ handlePointerLeave
               /\ d # NULL
               /\ d.type = "eraser"
               /\ Len(d.path) < 2)
              => /\ Reduce("annotations", annotations', pending')
                       = Cur("annotations", annotations)
                 /\ Reduce("drawingAnnotation", drawingAnnotation', pending') = NULL]_vars

\* The eraser was pressed and released, and nothing came of it.
C7_Witness ==
    /\ tool = "eraser"
    /\ ~isPointerDown
    /\ startPoint # Pt(0, 0)
    /\ drawingAnnotation = NULL
    /\ pending = <<>>
    /\ annotations = <<>>

RemoveAt(anns, k) == SubSeq(anns, 1, k - 1) \o SubSeq(anns, k + 1, Len(anns))
OpsOf(anns, j, lineWidth, headlen) ==
    PaintAnnotation(anns[j], CtxBefore(anns, j), lineWidth, headlen)

\* Every erase stroke of anns is a destructive stroke along its path, painted
\* in list order, and every later entry is painted exactly as it is painted
\* when the erase stroke is not in the list at all.
EraseOrdered(anns, lineWidth, headlen) ==
    \A k \in DOMAIN anns :
        anns[k].type = "eraser" =>
            /\ Len(OpsOf(anns, k, lineWidth, headlen)) = 1
            /\ OpsOf(anns, k, lineWidth, headlen)[1].globalCompositeOperation = "destination-out"
            /\ OpsOf(anns, k, lineWidth, headlen)[1].path = anns[k].path
            /\ \A j \in DOMAIN anns :
                  j > k => OpsOf(anns, j, lineWidth, headlen)
                             = OpsOf(RemoveAt(anns, k), j - 1, lineWidth, headlen)

\* C8 (as the spec states it): in the renderer and in the flattener an erase
\* stroke at store position k erases, within its path, the image and the
\* annotations before k, and has no effect on the pixels of the annotations
\* after k.
C8_EraseOrdering ==
    image # NULL =>
        /\ EraseOrdered(DrawList, DrawLineWidth, DrawHeadlen)
        /\ EraseOrdered(annotations, 400, 1500)

\* The export of the store: the image at (0,0), then one call for each
\* annotation, in store order, at the stored coordinates, strokes 4 px wide.
ExportedAsStored ==
    /\ Len(exported.ops) = Len(annotations) + 1
    /\ exported.ops[1] = [op |-> "drawImage", image |-> imageRef, x |-> 0, y |-> 0]
    /\ \A i \in DOMAIN annotations :
          LET a == annotations[i]
              o == exported.ops[i + 1]
          IN  CASE a.type = "rect" ->
                      /\ o.op = "strokeRect" /\ o.lineWidth = 400
                      /\ <<o.x, o.y, o.width, o.height>> = <<a.x, a.y, a.width, a.height>>
                [] a.type = "arrow" ->
                      /\ o.op = "strokeArrow" /\ o.lineWidth = 400 /\ o.headlen = 1500
                      /\ <<o.x, o.y, o.width, o.height>> = <<a.x, a.y, a.width, a.height>>
                [] a.type = "text" ->
                      /\ o.op = "wrapText" /\ o.text = a.text /\ o.fontSize = a.fontSize
                      /\ <<o.x, o.y, o.maxWidth>> = <<a.x, a.y, a.width>>
                [] a.type = "eraser" ->
                      /\ o.op = "strokePath" /\ o.path = a.path
                      /\ o.lineWidth = a.strokeWidth * 100

\* C9: the export is a function of the image and the store only: whatever the
\* zoom, the pan offset, the selection, the tool and the draft, it draws the
\* image and every stored annotation at its stored coordinates with the
\* fixed 4 px stroke width.
C9_ExportIgnoresView ==
    [][(\E format \in Formats : handleDownload(format)) => ExportedAsStored']_vars

\* A rectangle exported under zoom 3, a pan and a draft.
C9_Witness ==
    /\ exported # NoExport
    /\ zoom = 300
    /\ offset # Pt(0, 0)
    /\ drawingAnnotation # NULL
    /\ annotations = <<RectA>>

\* C10 (as the spec states it): the stored ids are pairwise distinct, and the
\* id of a session for a new text is the id of no stored annotation (a stored
\* annotation with the session's id can only be the text under edit).
C10_DistinctIds ==
    /\ \A i, j \in DOMAIN annotations : i # j => annotations[i].id # annotations[j].id
    /\ \A i \in DOMAIN annotations :
          (editingAnnotation # NULL /\ annotations[i].id = editingAnnotation.id)
              => annotations[i].type = "text"

\* C3 (as the spec states it): in every reachable state a selected annotation
\* id and an open text-edit session never coexist; a select-tool pointer-down
\* that hits the annotation being edited ends the session before selecting.
C3_SelectionExcludesSession ==
    ~(selectedAnnotationId # NoId /\ editingAnnotation # NULL)

\* C4: every transition that opens a text-edit session (a text-tool click on
\* the canvas, the "Editar Texto" button) ends in a state with no selection.
C4_OpeningClearsSelection ==
    [][(editingAnnotation = NULL /\ editingAnnotation' # NULL)
          => selectedAnnotationId' = NoId]_vars

\* A session opened by the button on the stored, until then selected, text.
C4_Witness ==
    /\ editingAnnotation # NULL
    /\ editingAnnotation.id \in StoredIds
    /\ editingAnnotation.text # EmptyText
    /\ selectedAnnotationId = NoId

\* ------------------------------------------------------------------------
\* A step that ends the text session, and the store without the entries of
\* one id.
SessionCloses == editingAnnotation # NULL /\ editingAnnotation' = NULL
WithoutId(anns, id) == SelectSeq(anns, LAMBDA a : a.id # id)

\* C11: a step that commits a session whose text is empty after trimming
\* leaves no stored annotation with the session's id, keeps every other
\* entry and the order of the store, closes the session and sets no error.
C11_EmptyCommitRemoves ==
    [][(SessionCloses /\ TrimIsEmpty(editingAnnotation.text))
          => /\ annotations' = WithoutId(annotations, editingAnnotation.id)
             /\ error' = error]_vars

\* the annotation a commit stores: the session's annotation with the height
\* of its wrapped text
FinalAnnotation(ed) ==
    [ed EXCEPT !.height = getTextBlockHeight(ed.text, ed.width, ed.fontSize, ed.fontSize * 120)]
IndicesOf(anns, id) == {i \in DOMAIN anns : anns[i].id = id}

\* C12: a step that commits a session whose text is not empty leaves exactly
\* one annotation with the session's id, appended at the end when the id was
\* not stored and replacing the stored one at its index otherwise, and keeps
\* every other entry; this also when several callbacks commit in one step.
C12_CommitStoresOnce ==
    [][(SessionCloses /\ ~TrimIsEmpty(editingAnnotation.text))
          => /\ Cardinality(IndicesOf(annotations', editingAnnotation.id)) = 1
             /\ IF IndicesOf(annotations, editingAnnotation.id) = {}
                THEN annotations' = Append(annotations, FinalAnnotation(editingAnnotation))
                ELSE annotations' = [i \in DOMAIN annotations |->
                                        IF annotations[i].id = editingAnnotation.id
                                        THEN FinalAnnotation(editingAnnotation)
                                        ELSE annotations[i]]]_vars

\* every stored entry is still stored, at its index
EntriesKept ==
    \A i \in DOMAIN annotations :
        i \in DOMAIN annotations' /\ annotations'[i].id = annotations[i].id
\* the step removed the selected annotation, as Delete or Backspace does
DeletedSelected ==
    /\ selectedAnnotationId # NoId
    /\ selectedAnnotationId' = NoId
    /\ annotations' = WithoutId(annotations, selectedAnnotationId)
\* the step committed a session with empty text and removed its annotation
EmptyCommitRemoved ==
    /\ SessionCloses
    /\ TrimIsEmpty(editingAnnotation.text)
    /\ annotations' = WithoutId(annotations, editingAnnotation.id)

\* C13: with no image load in between, a step removes or moves a stored
\* annotation only if it deletes the selected annotation or commits a text
\* session with empty text on that annotation; pointer gestures, tool
\* changes and the opening of a session keep every stored entry in place.
C13_OnlyDeleteOrEmptyCommitRemoves ==
    [][EntriesKept \/ DeletedSelected \/ EmptyCommitRemoved]_vars

Encoded == {i \in DOMAIN encodes : encodes[i].result \notin {Encoding, NULL}}

\* C18: saveAs is called only with a blob that is not null: once for every
\* encode that produced data, never for an encode that produced none, and
\* an export is started only while an image is loaded.
C18_SaveOnlyWithBlob ==
    /\ [](/\ \A k \in DOMAIN saved : saved[k].blob # NULL
          /\ Len(saved) = Cardinality(Encoded))
    /\ [][Len(encodes') > Len(encodes) => image # NULL]_vars
\* one encode has produced no data and another one a blob, which was saved
C18_Witness ==
    /\ \E i \in DOMAIN encodes : encodes[i].result = NULL
    /\ Encoded # {}
    /\ Len(saved) = 1

\* C19: export requests never overlap: at most one encode is outstanding.
C19_OneEncodeOutstanding == Cardinality(Outstanding) <= 1

\* the engine state the claims about loading speak of
EngineState ==
    <<image, annotations, drawingAnnotation, selectedAnnotationId, editingAnnotation,
      zoom, offset>>
\* the step requests the load of a file that will not decode, or is the
\* failure of its decode
FailedLoadRequested == \E f \in CorruptFiles : f \in decoding' /\ f \notin decoding
DecodeFailed == \E f \in CorruptFiles : f \in decoding /\ f \notin decoding'

\* C15: a load that fails to decode leaves the base image, the store, the
\* draft, the selection, the edit session, the zoom and the pan offset as
\* they were before the load was requested. Nothing in the code runs when the
\* decode fails, so this is: neither the request of such a load, made with no
\* update waiting for a render, nor the failure changes any of them.
C15_FailedLoadKeepsState ==
    [][((pending = <<>> /\ FailedLoadRequested) \/ DecodeFailed)
          => UNCHANGED EngineState]_vars

\* the step is the callback of an encode that produced no data
EncodeFailed ==
    \E i \in DOMAIN encodes :
        encodes[i].result = Encoding /\ i \in DOMAIN encodes' /\ encodes'[i].result = NULL

\* C16: every failure is surfaced as a message: when a decode has failed, and
\* when the encoder of an export has produced no data, the error state, as
\* set or waiting to be rendered, is not null.
C16_FailureSetsError ==
    [][(DecodeFailed \/ EncodeFailed) => Cur("error", error)' # ""]_vars

\* C17: whenever the displayed image changes to a newly decoded image, the
\* store is empty and the draft, the selection and the edit session are
\* null, however requests and decodes interleave.
C17_NewImageStartsEmpty ==
    [][(image' # image /\ image' # NULL)
          => /\ annotations' = <<>>
             /\ drawingAnnotation' = NULL
             /\ selectedAnnotationId' = NoId
             /\ editingAnnotation' = NULL]_vars

\* C20: while a decode is outstanding no pointer-down, pointer-move,
\* pointer-up or canvas click is accepted: a step that neither requests a
\* load nor ends a decode leaves the pressed state of the pointer, the
\* store, the draft and the edit session as they are.
C20_NoGestureWhileDecoding ==
    [][(decoding # {} /\ decoding' = decoding /\ image' = image)
          => UNCHANGED <<isPointerDown, annotations, drawingAnnotation, editingAnnotation>>]_vars

\* C21: a pointer-down received while the pointer is down starts no second
\* gesture: the anchor point, the pan start, the zoom start, the drag origin,
\* the draft with the erase path collected so far, and the selection stay
\* as they are.
C21_SecondDownIgnored ==
    [][(isPointerDown /\ \E p \in DrawPts : handlePointerDown(p))
          => /\ UNCHANGED <<startPoint, startPan, zoomStartPointY, startZoom,
                            dragStartAnnotationPos>>
             /\ drawingAnnotation' = Cur("drawingAnnotation", drawingAnnotation)
             /\ selectedAnnotationId' = Cur("selectedAnnotationId", selectedAnnotationId)]_vars

\* the value a pointer-up in this state renders for a state variable
AfterUp(v, val) == Reduce(v, val, pending \o PointerUpUpdates)

\* C22: a pointer-leave does what a pointer-up does: it clears the
\* pointer-down flag and the drag origin, and once rendered it has committed
\* or discarded the draft exactly as a pointer-up in the same state; a
\* pointer-move that comes while the pointer is not down changes nothing.
C22_LeaveActsAsUp ==
    [][/\ handlePointerLeave
          => /\ isPointerDown' = FALSE
             /\ dragStartAnnotationPos' = NoPos
             /\ Cur("annotations", annotations)' = AfterUp("annotations", annotations)
             /\ Cur("drawingAnnotation", drawingAnnotation)'
                    = AfterUp("drawingAnnotation", drawingAnnotation)
       /\ (~isPointerDown /\ \E p \in DrawPts : handlePointerMove(p))
          => UNCHANGED vars]_vars
\* a leave has committed a draft that waits for its render, and nothing
\* is pressed
C22_Witness ==
    /\ ~isPointerDown
    /\ drawingAnnotation # NULL
    /\ \E i \in DOMAIN pending : pending[i].var = "annotations" /\ pending[i].op = "append"

\* hit test of the claim, on the rendered store
InBounds(ann, p) ==
    /\ ann.x <= p.x /\ p.x <= ann.x + ann.width
    /\ ann.y <= p.y /\ p.y <= ann.y + ann.height
TopmostAt(p) ==
    LET hits == {i \in DOMAIN annotations : InBounds(annotations[i], p)}
    IN  IF hits = {} THEN NoId
        ELSE annotations[CHOOSE i \in hits : \A j \in hits : j <= i].id

\* C23: a pointer-down with the select tool at world point p selects the
\* stored annotation of greatest index whose bounds [x, x+width] x
\* [y, y+height] contain p, boundary included, and clears the selection when
\* there is none; the draft is never a candidate.
C23_SelectsTopmostHit ==
    [][\A p \in SelectPts :
          (tool = "select" /\ handlePointerDown(p))
              => selectedAnnotationId' = TopmostAt(getTransformedPoint(p.x, p.y))]_vars

\* a point on the boundary of two overlapping annotations selected the upper
\* one, while a draft lay under the point
C23_Witness ==
    /\ Len(annotations) >= 2
    /\ drawingAnnotation # NULL
    /\ isPointerDown
    /\ startPoint \in {Pt(1000, 1000), Pt(5000, 5000)}
    /\ InBounds(annotations[1], startPoint)
    /\ InBounds(annotations[2], startPoint)
    /\ selectedAnnotationId = annotations[2].id

\* C24: erase strokes are excluded from hit-testing: the selected annotation
\* is never an erase stroke of the store.
C24_EraserNeverSelected ==
    \A i \in DOMAIN annotations :
        annotations[i].id = selectedAnnotationId => annotations[i].type # "eraser"

PanMove(p) ==
    /\ handlePointerMove(p)
    /\ isPointerDown /\ tool = "select" /\ selectedAnnotationId = NoId
\* C25: the pan offset changes only on a pointer-move while the pointer is
\* down, the select tool is active and nothing is selected, and by an image
\* load, which resets it to (0, 0); the new offset is the offset at
\* pointer-down plus the screen displacement since then.
C25_OffsetChangesOnlyByPan ==
    [][/\ Cur("offset", offset)' # Cur("offset", offset)
          => \/ \E p \in PanPts : PanMove(p)
             \/ /\ \E f \in ImageFiles : ProcessFile(f)
                /\ Cur("offset", offset)' = Pt(0, 0)
       /\ \A p \in PanPts :
            /\ handlePointerDown(p)
                  => startPan' = Pt(p.x - Cur("offset", offset)'.x,
                                    p.y - Cur("offset", offset)'.y)
            /\ PanMove(p)
                  => Cur("offset", offset)' = Pt(p.x - startPan.x, p.y - startPan.y)]_vars

HeightDerived(ann) ==
    ann.type = "text"
        => ann.height = getTextBlockHeight(ann.text, ann.width, ann.fontSize, 120 * ann.fontSize)

\* C26: every text annotation, stored or held by the open edit session, has
\* the height of its wrapped lines: the line count of its content at its
\* width and font size, times 1.2 times the font size.
C26_TextHeightDerived ==
    /\ \A i \in DOMAIN annotations : HeightDerived(annotations[i])
    /\ editingAnnotation # NULL => HeightDerived(editingAnnotation)

\* C27: when a merge of two or more valid PDFs ends with every step
\* successful, the loading flag is cleared with the merged document handed
\* to saveAs exactly once.
C27_MergeDelivered ==
    [][\A i \in 1..MaxMerges :
          MergeSave(i) => merger'.saved = Append(merger.saved, merger.merging[i].pages)]_vars

\* C28: for the JPEG export the first drawing operation is an opaque
\* background fill of the whole canvas, made before the base image is drawn;
\* for the PNG export there is no background fill.
C28_JpegBackgroundFirst ==
    [][\A format \in Formats :
          handleDownload(format)
              => LET ops == exported'.ops
                     fills == {i \in DOMAIN ops : ops[i].op = "fillRect"}
                 IN  IF format = "jpeg"
                     THEN /\ fills = {1}
                          /\ ops[2].op = "drawImage"
                     ELSE fills = {}]_vars

ErasesAt(ops) == {i \in DOMAIN ops : ops[i].globalCompositeOperation = "destination-out"}
OpOf(ann) ==
    CASE ann.type = "rect" -> "strokeRect"
      [] ann.type = "arrow" -> "strokeArrow"
      [] ann.type = "text" -> "wrapText"
      [] ann.type = "eraser" -> "strokePath"
\* C29: in the flattened export every erase stroke is applied before any
\* non-erase annotation is drawn, erase strokes and the other annotations
\* each in store order, so that no rectangle, arrow or text is erased.
C29_ErasesBeforeMarkup ==
    [][(\E format \in Formats : handleDownload(format))
          => LET ops == Tail(exported'.ops)
                 erasers == SelectSeq(annotations, LAMBDA ann : ann.type = "eraser")
                 others == SelectSeq(annotations, LAMBDA ann : ann.type # "eraser")
             IN  /\ ErasesAt(ops) = 1..Len(erasers)
                 /\ Len(ops) = Len(annotations)
                 /\ \A k \in DOMAIN erasers : ops[k].path = erasers[k].path
                 /\ \A k \in DOMAIN others :
                       LET o == ops[Len(erasers) + k]
                       IN  /\ o.op = OpOf(others[k])
                           /\ o.x = others[k].x /\ o.y = others[k].y]_vars

DragMove(p) ==
    /\ handlePointerMove(p)
    /\ isPointerDown /\ tool = "select"
    /\ selectedAnnotationId # NoId /\ dragStartAnnotationPos # NoPos
Store == Cur("annotations", annotations)
\* C30: in a drag with the select tool, a pointer-down on an annotation
\* records its position (x0, y0) and the world point p0, and after every
\* pointer-move to world point p the annotation is at (x0 + p.x - p0.x,
\* y0 + p.y - p0.y), with its other fields, its store index and every other
\* annotation unchanged.
C30_DragFollowsPointer ==
    [][\A p \in SelectPts :
          LET w == getTransformedPoint(p.x, p.y)
          IN  /\ (tool = "select" /\ handlePointerDown(p) /\ selectedAnnotationId' # NoId)
                    => /\ startPoint' = w
                       /\ \E i \in DOMAIN Store' :
                             /\ Store'[i].id = selectedAnnotationId'
                             /\ dragStartAnnotationPos' = Pt(Store'[i].x, Store'[i].y)
              /\ DragMove(p)
                    => /\ DOMAIN Store' = DOMAIN Store
                       /\ \A i \in DOMAIN Store :
                             Store'[i] =
                                 IF Store[i].id = selectedAnnotationId
                                 THEN [Store[i] EXCEPT
                                         !.x = dragStartAnnotationPos.x + w.x - startPoint.x,
                                         !.y = dragStartAnnotationPos.y + w.y - startPoint.y]
                                 ELSE Store[i]]_vars

Session == Cur("editingAnnotation", editingAnnotation)
\* C31: a click with the text tool at world point p while no session is open
\* opens a session for a new text at p, with empty content, wrap width 200
\* and the default font size, and clears the selection; a click with the text
\* tool while a session is open changes neither the session nor the store;
\* a click with another tool opens no session.
C31_TextClickOpensSession ==
    [][\A p \in EditPts :
          handleCanvasClick(p)
              => IF tool = "text" /\ editingAnnotation = NULL
                 THEN LET w == getTransformedPoint(p.x, p.y)
                      IN  /\ Session' # NULL
                          /\ Session'.type = "text"
                          /\ Session'.x = w.x /\ Session'.y = w.y
                          /\ Session'.text = EmptyText
                          /\ Session'.width = 20000
                          /\ Session'.fontSize = Max(16, (image.naturalWidth * 2) \div 100)
                          /\ Cur("selectedAnnotationId", selectedAnnotationId)' = NoId
                 ELSE /\ Session' = Session
                      /\ Store' = Store]_vars

\* a session for a new, still empty text is open at world (110, 20)
C31_Witness ==
    /\ tool = "text"
    /\ editingAnnotation # NULL
    /\ editingAnnotation.text = EmptyText
    /\ editingAnnotation.x = 11000 /\ editingAnnotation.y = 2000
    /\ editingAnnotation.width = 20000
    /\ selectedAnnotationId = NoId
    /\ \A i \in DOMAIN annotations : annotations[i].id # editingAnnotation.id

\* C32: the dashed selection outline is 2 screen pixels wide at every zoom:
\* its world line width times the zoom is 2 px (to the rounding of the
\* fixed-point width).
C32_OutlineWidthConstant ==
    (image # NULL /\ SelectionOutline # <<>>)
        => 2 * Abs(SelectionOutline[1].lineWidth * zoom - 20000) <= zoom

\* the store after the commit of session ed under the commit policy
Committed(anns, ed) ==
    IF TrimIsEmpty(ed.text) THEN WithoutId(anns, ed.id)
    ELSE IF IndicesOf(anns, ed.id) = {} THEN Append(anns, FinalAnnotation(ed))
    ELSE [i \in DOMAIN anns |-> IF anns[i].id = ed.id THEN FinalAnnotation(ed) ELSE anns[i]]

\* C33: there is one session at most, and a second one starts only after
\* the first is committed: no step replaces an open session by another, and
\* the press outside the editor that starts the next session closes the open
\* one with its content committed under the commit policy (stored if not
\* empty, removed if empty).
C33_SecondSessionCommitsFirst ==
    [][/\ (Session # NULL /\ Session' # NULL) => Session'.id = Session.id
       /\ DocumentMouseDown
             => /\ Session' = NULL
                /\ Store' = Committed(Store, Session)]_vars

\* C34: no gesture is left stuck: whenever no pointer is down, the draft is
\* null and the drag origin is null.
C34_NoStuckGesture ==
    ~isPointerDown
        => /\ Cur("drawingAnnotation", drawingAnnotation) = NULL
           /\ dragStartAnnotationPos = NoPos

\* C35: selectedAnnotationId is null or the id of an annotation of the
\* store.
C35_SelectionInStore ==
    \/ selectedAnnotationId = NoId
    \/ \E i \in DOMAIN annotations : annotations[i].id = selectedAnnotationId

CleanContext(anns) ==
    \A j \in DOMAIN anns :
        anns[j].type # "eraser" => CtxBefore(anns, j) = CtxDefault
\* C36: in the renderer and in the flattener a non-erase annotation is drawn
\* in the same context state whether or not an erase stroke precedes it in
\* the store: an erase stroke leaves the composite mode, line cap and line
\* join it has changed restored.
C36_EraseRestoresContext ==
    image # NULL => CleanContext(DrawList) /\ CleanContext(annotations)

\* w is the midpoint of the diagonal of ann
MidpointOf(ann, w) == 2 * w.x = 2 * ann.x + ann.width /\ 2 * w.y = 2 * ann.y + ann.height
\* C37: every stored rectangle or arrow is selectable, whatever the
\* direction it was drawn in: a pointer-down with the select tool at the
\* midpoint of its diagonal selects it when the bounds of no later
\* annotation contain that point.
C37_ShapeSelectableAtMidpoint ==
    [][\A p \in PickPts : \A i \in DOMAIN annotations :
          LET w == getTransformedPoint(p.x, p.y)
          IN  (/\ tool = "select"
               /\ handlePointerDown(p)
               /\ annotations[i].type \in ShapeTools
               /\ MidpointOf(annotations[i], w)
               /\ \A j \in DOMAIN annotations : j > i => ~InBounds(annotations[j], w))
                  => selectedAnnotationId' = annotations[i].id]_vars

\* C38: in the image-to-PDF page list, activePageIndex is null or an index
\* of the list: 0 <= activePageIndex < pages.length.
C38_ActiveIndexValid ==
    \/ imagePdf.activePageIndex = NoIndex
    \/ /\ 0 <= imagePdf.activePageIndex
       /\ imagePdf.activePageIndex < Len(imagePdf.pages)

\* the page list after the result of a background removal started on the
\* page with this id has been put on that page and on no other
ResultOn(pgs, id) ==
    [i \in DOMAIN pgs |-> IF pgs[i].id = id THEN [pgs[i] EXCEPT !.bgRemoved = TRUE, !.filter = "none"] ELSE pgs[i]]

\* C39: when a background-removal call completes, only the page it was
\* started on receives the result, and every change made to the page list
\* while the call was outstanding is preserved.
C39_ResultOnlyOnStartedPage ==
    [][RemoveBackgroundDone(TRUE) =>
         LET call == Head(imagePdf.calls)
         IN  imagePdf.pages' =
               ResultOn(imagePdf.pages, call.pages[call.activePageIndex + 1].id)]_vars

\* a component shows a failure: an error message, and no file, no
\* thumbnails and no loading flag
ShowsFailure(c) ==
    c.error # "" /\ c.pdfFile = NoFile /\ c.pageThumbnails = <<>> /\ ~c.isLoading

\* C40: in the PDF splitter and in the PDF editor, when a file that is not
\* a PDF is supplied or reading the PDF fails, the resulting state has a
\* non-null error message, and no file, no thumbnails and no loading flag.
C40_FailureLeavesError ==
    [][/\ (SplitterProcessFile(NotPdf) \/ \E i \in 1..MaxReads :
             SplitterReadDone(i) /\ ~splitter.reading[i].valid) => ShowsFailure(splitter')
       /\ (EditorProcessFile(NotPdf) \/ \E i \in 1..MaxReads :
             EditorReadDone(i) /\ ~pdfEditor.reading[i].valid) => ShowsFailure(pdfEditor')]_vars

====
